---- MODULE Spec2Model ----
(***************************************************************************)
(* Verification model of helpers of typescript-dev-core: the async         *)
(* control-flow helpers of src/unnamed/part_001 (parallelLimit, retry,     *)
(* timeout, debounce, debounceSync, throttle, asyncMap, asyncFilter,       *)
(* batchExecute, waitFor, memoizeAsync) and its minBy / maxBy, truncate of *)
(* src/unnamed/part_000, the object helpers of                             *)
(* src/helpers/object.helper.ts (deepClone, deepMerge, flattenObject,      *)
(* getPath, setPath, hasPath), and the result constructors and guards and  *)
(* getErrorCodeTitle of src/models/result.model.ts and                     *)
(* src/unnamed/part_003.                                                   *)
(*                                                                         *)
(* JavaScript is single threaded: a synchronous stretch of code runs to    *)
(* its next await without interleaving, so each action below is one such   *)
(* stretch (a call up to its first await, a continuation after an await,   *)
(* or the settlement of a promise together with the reaction the helper    *)
(* attached to it).  Timers fire no earlier than they are due, and a clock *)
(* variable per helper stands for Date.now().  Every helper has its own    *)
(* specification; the state of the helpers a specification does not run    *)
(* stays parked.                                                           *)
(***************************************************************************)
EXTENDS Integers, Sequences, FiniteSets, TLC

\* -------------------------------------------------------------------------
\* Bounds of the model and the small value sets the inputs are drawn from.
\* -------------------------------------------------------------------------
MaxTasks == 4
MaxConcurrency == 3

Values == {"a", "b"}
Errors == {"e1", "e2"}

NoValue == "<empty>"
NoError == "<none>"

Min(a, b) == IF a <= b THEN a ELSE b

RECURSIVE Pow(_, _)
Pow(b, n) == IF n <= 0 THEN 1 ELSE b * Pow(b, n - 1)

VARIABLES
    \* ---- parallelLimit(tasks, concurrency) ----
    pl_tasks,        \* tasks[i] is a function (TRUE) or a hole the loop skips (FALSE)
    pl_concurrency,  \* the concurrency argument
    pl_i,            \* the loop variable i (1-based): next index the loop looks at
    pl_results,      \* results: new Array(tasks.length)
    pl_executing,    \* executing: Set<Promise>, in insertion (= iteration) order
    pl_task,         \* per task: "unstarted" | "pending" | "resolved" | "rejected"
    pl_reason,       \* per task: the reason it rejected with
    pl_value,        \* per task: the value it resolved with
    pl_pc,           \* where the async function is
    pl_await,        \* state of the aggregate (Promise.race / Promise.all) awaited
    pl_outcome,      \* the promise parallelLimit returned
    pl_rejections    \* history: task indices in the order their rejections occurred

plVars == <<pl_tasks, pl_concurrency, pl_i, pl_results, pl_executing, pl_task,
            pl_reason, pl_value, pl_pc, pl_await, pl_outcome, pl_rejections>>

VARIABLES
    \* ---- retry(fn, options) ----
    rt_maxRetries,         \* options.maxRetries
    rt_initialDelay,       \* options.initialDelay
    rt_maxDelay,           \* options.maxDelay
    rt_backoffMultiplier,  \* options.backoffMultiplier
    rt_shouldRetry,        \* options.shouldRetry, as the set of errors it accepts
    rt_onRetry,            \* whether options.onRetry is given
    rt_attempt,            \* the loop variable attempt
    rt_delay,              \* let delay
    rt_lastError,          \* let lastError
    rt_pc,                 \* "call" | "fn" | "sleep" | "done" | "parked"
    rt_outcome,            \* the promise retry returned
    rt_log                 \* history: what retry did, in order

rtVars == <<rt_maxRetries, rt_initialDelay, rt_maxDelay, rt_backoffMultiplier,
            rt_shouldRetry, rt_onRetry, rt_attempt, rt_delay, rt_lastError,
            rt_pc, rt_outcome, rt_log>>

VARIABLES
    \* ---- timeout(promise, ms, errorMessage?) ----
    to_promise,       \* the promise argument: Pending, fulfilled or rejected
    to_ms,            \* the ms argument
    to_errorMessage,  \* the errorMessage argument
    to_timeoutId,     \* let timeoutId (0: undefined)
    to_timer,         \* the timer of setTimeout: "none" | "pending" | "fired" | "cleared"
    to_race,          \* Promise.race([promise, timeoutPromise])
    to_pc,            \* "call" | "await" | "done" | "parked"
    to_outcome,       \* the promise timeout returned
    to_first,         \* history: what happened first, "promise" settled or "timer" fired
    to_settled        \* history: how many times the returned promise was settled

toVars == <<to_promise, to_ms, to_errorMessage, to_timeoutId, to_timer, to_race,
            to_pc, to_outcome, to_first, to_settled>>

\* debounce / debounceSync (src/unnamed/part_001, lines 474-495 and 512-524)
VARIABLES
    db_sync,        \* TRUE: debounceSync, FALSE: debounce
    db_ms,          \* the ms argument
    db_now,         \* the clock
    db_timeoutId,   \* the closure variable timeoutId (0: still undefined)
    db_calls        \* one record per call of the debounced function

dbVars == <<db_sync, db_ms, db_now, db_timeoutId, db_calls>>

\* throttle (src/unnamed/part_001, lines 536-559)
VARIABLES
    th_ms,          \* the ms argument
    th_now,         \* the clock
    th_isThrottled, \* the closure variable isThrottled
    th_lastResult,  \* the closure variable lastResult
    th_calls        \* one record per call of the throttled function

thVars == <<th_ms, th_now, th_isThrottled, th_lastResult, th_calls>>

\* asyncMap / asyncFilter (src/unnamed/part_001, lines 571-583 and 595-607)
VARIABLES
    am_filter,      \* TRUE: asyncFilter, FALSE: asyncMap
    am_array,       \* the array argument
    am_i,           \* the loop variable i (0-based, as in the source)
    am_pc,          \* "start", "await" (a callback call is in flight), "done"
    am_results,     \* the local array results
    am_outcome,     \* the returned promise
    am_log          \* history: callback invocations and their settlements

amVars == <<am_filter, am_array, am_i, am_pc, am_results, am_outcome, am_log>>

\* batchExecute (src/unnamed/part_001, lines 660-673)
VARIABLES
    be_tasks,       \* per task (0-based index k at position k + 1): its promise
    be_chunkSize,   \* the chunkSize argument
    be_i,           \* the loop variable i
    be_chunk,       \* the 0-based indices of the tasks of the current chunk
    be_all,         \* the promise Promise.all(...) of the current chunk
    be_pc,          \* "start", "await", "done"
    be_results,     \* the local array results
    be_outcome      \* the returned promise

beVars == <<be_tasks, be_chunkSize, be_i, be_chunk, be_all, be_pc,
            be_results, be_outcome>>

\* waitFor (src/unnamed/part_001, lines 698-735)
VARIABLES
    wf_interval,     \* options.interval
    wf_timeoutMs,    \* options.timeout
    wf_onFinish,     \* whether options.onFinish is given
    wf_onTimeout,    \* whether options.onTimeout is given
    wf_now,          \* the clock, Date.now()
    wf_startTime,    \* const startTime
    wf_sleepStart,   \* when the pending sleep(interval) was started
    wf_pc,           \* "start", "condition", "sleep", "done"
    wf_outcome,      \* the returned promise
    wf_log           \* history: evaluations of condition and callback calls

wfVars == <<wf_interval, wf_timeoutMs, wf_onFinish, wf_onTimeout, wf_now,
            wf_startTime, wf_sleepStart, wf_pc, wf_outcome, wf_log>>

\* memoizeAsync (src/unnamed/part_001, lines 748-777)
VARIABLES
    mz_ttl,         \* options.ttl: Undefined-like record (given, ms)
    mz_now,         \* the clock, Date.now()
    mz_cache,       \* the Map cache: key -> entry (or NoEntry)
    mz_calls,       \* one record per call of the memoized function
    mz_resolved     \* history: the fn resolutions, in the order they happened

mzVars == <<mz_ttl, mz_now, mz_cache, mz_calls, mz_resolved>>

\* truncate (src/unnamed/part_000, lines 69-76)
VARIABLES
    tr_str,         \* the argument str, as a sequence of characters
    tr_maxLength,   \* the argument maxLength
    tr_ellipsis,    \* the argument ellipsis (default "...")
    tr_pc,          \* "call", "returned"
    tr_result       \* the returned string

trVars == <<tr_str, tr_maxLength, tr_ellipsis, tr_pc, tr_result>>

\* deepMerge (src/helpers/object.helper.ts, lines 129-172)
VARIABLES
    dm_target,      \* the argument target
    dm_source,      \* the one source argument
    dm_pc,          \* "call", "returned"
    dm_result       \* the returned object

dmVars == <<dm_target, dm_source, dm_pc, dm_result>>

\* getPath / hasPath / setPath (src/helpers/object.helper.ts, lines 301-397)
VARIABLES
    pa_obj,         \* the argument obj
    pa_path,        \* the argument path, as a sequence of characters
    pa_default,     \* getPath's defaultValue
    pa_value,       \* setPath's value
    pa_pc,          \* "call", "read" (getPath and hasPath returned),
                    \* "written" (setPath returned or threw)
    pa_threw,       \* whether setPath threw
    pa_after,       \* obj after setPath (as far as it got)
    pa_got,         \* what getPath returned
    pa_has          \* what hasPath returned

paVars == <<pa_obj, pa_path, pa_default, pa_value, pa_pc, pa_threw,
            pa_after, pa_got, pa_has>>

\* ok / failure / isSuccessResult / isFailureResult
\* (src/models/result.model.ts, lines 50-112, and the branded version of the
\* same module, src/unnamed/part_003, lines 54-147)
VARIABLES
    rs_branded,     \* which version of the module: FALSE for
                    \* result.model.ts, TRUE for the one with __brand
    rs_built,       \* how the result came to be: "ok", "failure", "given"
    rs_result,      \* the value handed to the guards
    rs_pc,          \* "start", "built", "checked"
    rs_isSuccess,   \* what isSuccessResult returned
    rs_isFailure    \* what isFailureResult returned

rsVars == <<rs_branded, rs_built, rs_result, rs_pc, rs_isSuccess,
            rs_isFailure>>

\* minBy / maxBy (src/unnamed/part_001, lines 216-263)
VARIABLES
    mb_array,       \* the argument array
    mb_selector,    \* valueSelector, as a function from items to numbers
    mb_pc,          \* "call", "min" (minBy returned), "max" (maxBy returned)
    mb_result       \* what was returned

mbVars == <<mb_array, mb_selector, mb_pc, mb_result>>

\* flattenObject (src/helpers/object.helper.ts, lines 174-210)
VARIABLES
    fl_obj,         \* the argument obj
    fl_pc,          \* "call", "flattened"
    fl_result       \* the record returned, from dot keys to values

flVars == <<fl_obj, fl_pc, fl_result>>

\* getErrorCodeTitle (src/unnamed/part_003, lines 149-161)
VARIABLES
    ct_code,        \* the argument code, as a sequence of characters
    ct_pc,          \* "call", "titled"
    ct_title        \* the string returned, as a sequence of characters

ctVars == <<ct_code, ct_pc, ct_title>>

vars == <<plVars, rtVars, toVars, dbVars, thVars, amVars, beVars, wfVars,
          mzVars, trVars, dmVars, paVars, rsVars, mbVars, flVars, ctVars>>

\* What a step of one helper leaves alone: the state of the other helpers.
OnlyParallelLimit == UNCHANGED <<rtVars, toVars, dbVars, thVars, amVars,
                                 beVars, wfVars, mzVars, trVars, dmVars,
                                 paVars, rsVars, mbVars, flVars, ctVars>>
OnlyRetry == UNCHANGED <<plVars, toVars, dbVars, thVars, amVars, beVars,
                         wfVars, mzVars, trVars, dmVars, paVars, rsVars,
                         mbVars, flVars, ctVars>>
OnlyTimeout == UNCHANGED <<plVars, rtVars, dbVars, thVars, amVars, beVars,
                           wfVars, mzVars, trVars, dmVars, paVars, rsVars,
                           mbVars, flVars, ctVars>>
OnlyDebounce == UNCHANGED <<plVars, rtVars, toVars, thVars, amVars, beVars,
                            wfVars, mzVars, trVars, dmVars, paVars, rsVars,
                            mbVars, flVars, ctVars>>
OnlyThrottle == UNCHANGED <<plVars, rtVars, toVars, dbVars, amVars, beVars,
                            wfVars, mzVars, trVars, dmVars, paVars, rsVars,
                            mbVars, flVars, ctVars>>
OnlyAsyncMap == UNCHANGED <<plVars, rtVars, toVars, dbVars, thVars, beVars,
                            wfVars, mzVars, trVars, dmVars, paVars, rsVars,
                            mbVars, flVars, ctVars>>
OnlyBatch == UNCHANGED <<plVars, rtVars, toVars, dbVars, thVars, amVars,
                         wfVars, mzVars, trVars, dmVars, paVars, rsVars,
                         mbVars, flVars, ctVars>>
OnlyWaitFor == UNCHANGED <<plVars, rtVars, toVars, dbVars, thVars, amVars,
                           beVars, mzVars, trVars, dmVars, paVars, rsVars,
                           mbVars, flVars, ctVars>>
OnlyMemo == UNCHANGED <<plVars, rtVars, toVars, dbVars, thVars, amVars,
                        beVars, wfVars, trVars, dmVars, paVars, rsVars,
                        mbVars, flVars, ctVars>>
OnlyTruncate == UNCHANGED <<plVars, rtVars, toVars, dbVars, thVars, amVars,
                            beVars, wfVars, mzVars, dmVars, paVars, rsVars,
                            mbVars, flVars, ctVars>>
OnlyDeepMerge == UNCHANGED <<plVars, rtVars, toVars, dbVars, thVars, amVars,
                             beVars, wfVars, mzVars, trVars, paVars, rsVars,
                             mbVars, flVars, ctVars>>
OnlyPath == UNCHANGED <<plVars, rtVars, toVars, dbVars, thVars, amVars,
                        beVars, wfVars, mzVars, trVars, dmVars, rsVars,
                        mbVars, flVars, ctVars>>
OnlyResult == UNCHANGED <<plVars, rtVars, toVars, dbVars, thVars, amVars,
                          beVars, wfVars, mzVars, trVars, dmVars, paVars,
                          mbVars, flVars, ctVars>>
OnlyBy == UNCHANGED <<plVars, rtVars, toVars, dbVars, thVars, amVars, beVars,
                      wfVars, mzVars, trVars, dmVars, paVars, rsVars, flVars,
                      ctVars>>
OnlyFlatten == UNCHANGED <<plVars, rtVars, toVars, dbVars, thVars, amVars,
                           beVars, wfVars, mzVars, trVars, dmVars, paVars,
                           rsVars, mbVars, ctVars>>
OnlyTitle == UNCHANGED <<plVars, rtVars, toVars, dbVars, thVars, amVars,
                         beVars, wfVars, mzVars, trVars, dmVars, paVars,
                         rsVars, mbVars, flVars>>


\* =========================================================================
\* parallelLimit
\* =========================================================================
PLIndices == 1..Len(pl_tasks)

Pending == [state |-> "pending"]
Fulfilled == [state |-> "fulfilled"]
Rejected(e) == [state |-> "rejected", reason |-> e]

\* Members of a sequence of task indices whose promise has already rejected.
RejectedIn(ex, st) == SelectSeq(ex, LAMBDA k : st[k] = "rejected")

\* Promise.race(executing) as called: every resolved promise has deleted itself
\* from the set, so a member that has already settled is a rejected one, and
\* the reaction of the first such member in iteration order runs first.
PromiseRace(ex, st, rs) ==
    IF RejectedIn(ex, st) # <<>> THEN Rejected(rs[Head(RejectedIn(ex, st))])
    ELSE Pending

\* Promise.all(executing) as called.
PromiseAll(ex, st, rs) ==
    IF RejectedIn(ex, st) # <<>> THEN Rejected(rs[Head(RejectedIn(ex, st))])
    ELSE IF ex = <<>> THEN Fulfilled
    ELSE Pending

\* Mutant of MustWait: the loop waits only once the limit is exceeded.
MustWaitOffByOne(size, concurrency) == size > concurrency

\* The admission test after executing.add(promise).
MustWait(size, concurrency) == size >= concurrency

\* The for loop from index i on, run until it awaits: the state it leaves.
RECURSIVE PLLoop(_, _, _)
PLLoop(i, ex, st) ==
    IF i > Len(pl_tasks)
    THEN [i |-> i, executing |-> ex, task |-> st, pc |-> "all",
          awaited |-> PromiseAll(ex, st, pl_reason)]
    ELSE IF ~pl_tasks[i]
    THEN PLLoop(i + 1, ex, st)
    ELSE LET ex2 == Append(ex, i)
             st2 == [st EXCEPT ![i] = "pending"]
         IN  IF MustWait(Len(ex2), pl_concurrency)
             THEN [i |-> i + 1, executing |-> ex2, task |-> st2, pc |-> "race",
                   awaited |-> PromiseRace(ex2, st2, pl_reason)]
             ELSE PLLoop(i + 1, ex2, st2)

PLRunLoop ==
    LET r == PLLoop(pl_i, pl_executing, pl_task)
    IN  /\ pl_i' = r.i
        /\ pl_executing' = r.executing
        /\ pl_task' = r.task
        /\ pl_pc' = r.pc
        /\ pl_await' = r.awaited

InitPL ==
    /\ pl_tasks \in UNION {[1..n -> BOOLEAN] : n \in 0..MaxTasks}
    /\ pl_concurrency \in 0..MaxConcurrency
    /\ pl_i = 1
    /\ pl_results = [k \in PLIndices |-> NoValue]
    /\ pl_executing = <<>>
    /\ pl_task = [k \in PLIndices |-> "unstarted"]
    /\ pl_reason = [k \in PLIndices |-> NoError]
    /\ pl_value = [k \in PLIndices |-> NoValue]
    /\ pl_pc = "call"
    /\ pl_await = Pending
    /\ pl_outcome = Pending
    /\ pl_rejections = <<>>

\* The call: the body up to its first await.
PLCall ==
    /\ OnlyParallelLimit
    /\ pl_pc = "call"
    /\ PLRunLoop
    /\ UNCHANGED <<pl_tasks, pl_concurrency, pl_results, pl_reason, pl_value,
                   pl_outcome, pl_rejections>>

\* Mutant of RaceSettledBy: the slot is freed only by the earliest-started
\* task in flight (a FIFO worker).
RaceSettledByHead(ex, k) == k = Head(ex)

\* Which settlements of a member settle a pending Promise.race.
RaceSettledBy(ex, k) == TRUE

\* The aggregate the function awaits, after task k resolved and left the set.
AwaitAfterResolve(k, ex2) ==
    IF pl_await # Pending THEN pl_await
    ELSE IF pl_pc = "race" THEN
        (IF RaceSettledBy(pl_executing, k) THEN Fulfilled ELSE Pending)
    ELSE IF pl_pc = "all" /\ ex2 = <<>> THEN Fulfilled
    ELSE pl_await

\* Mutant of StoreResult: results are stored in completion order.
StoreResultInCompletionOrder(results, index, result) ==
    [results EXCEPT ![Cardinality({k \in DOMAIN results : results[k] # NoValue}) + 1] = result]

\* `results[index] = result`
StoreResult(results, index, result) == [results EXCEPT ![index] = result]

\* Task k resolves with v, and the reaction attached by .then runs:
\* results[index] = result; executing.delete(promise).
PLTaskResolve(k, v) ==
    /\ OnlyParallelLimit
    /\ pl_task[k] = "pending"
    /\ LET ex2 == SelectSeq(pl_executing, LAMBDA j : j # k)
       IN  /\ pl_executing' = ex2
           /\ pl_await' = AwaitAfterResolve(k, ex2)
    /\ pl_results' = StoreResult(pl_results, k, v)
    /\ pl_value' = [pl_value EXCEPT ![k] = v]
    /\ pl_task' = [pl_task EXCEPT ![k] = "resolved"]
    /\ UNCHANGED <<pl_tasks, pl_concurrency, pl_i, pl_reason, pl_pc,
                   pl_outcome, pl_rejections>>

\* Task k rejects with e: .then has no rejection handler, so the promise in
\* the set rejects with e and stays in the set.
PLTaskReject(k, e) ==
    /\ OnlyParallelLimit
    /\ pl_task[k] = "pending"
    /\ pl_task' = [pl_task EXCEPT ![k] = "rejected"]
    /\ pl_reason' = [pl_reason EXCEPT ![k] = e]
    /\ pl_rejections' = Append(pl_rejections, k)
    /\ pl_await' = IF pl_await = Pending /\ pl_pc \in {"race", "all"}
                   THEN Rejected(e) ELSE pl_await
    /\ UNCHANGED <<pl_tasks, pl_concurrency, pl_i, pl_results, pl_executing,
                   pl_value, pl_pc, pl_outcome>>

\* The continuation after `await Promise.race(executing)` fulfilled.
PLResumeLoop ==
    /\ OnlyParallelLimit
    /\ pl_pc = "race"
    /\ pl_await = Fulfilled
    /\ PLRunLoop
    /\ UNCHANGED <<pl_tasks, pl_concurrency, pl_results, pl_reason, pl_value,
                   pl_outcome, pl_rejections>>

\* The continuation after `await Promise.all(executing)` fulfilled: return results.
PLReturn ==
    /\ OnlyParallelLimit
    /\ pl_pc = "all"
    /\ pl_await = Fulfilled
    /\ pl_pc' = "returned"
    /\ pl_outcome' = [state |-> "fulfilled", value |-> pl_results]
    /\ UNCHANGED <<pl_tasks, pl_concurrency, pl_i, pl_results, pl_executing,
                   pl_task, pl_reason, pl_value, pl_await, pl_rejections>>

\* The awaited aggregate rejected: the await throws and the function rejects.
PLThrow ==
    /\ OnlyParallelLimit
    /\ pl_pc \in {"race", "all"}
    /\ pl_await.state = "rejected"
    /\ pl_pc' = "threw"
    /\ pl_outcome' = Rejected(pl_await.reason)
    /\ UNCHANGED <<pl_tasks, pl_concurrency, pl_i, pl_results, pl_executing,
                   pl_task, pl_reason, pl_value, pl_await, pl_rejections>>

NextPL ==
    \/ PLCall
    \/ \E k \in PLIndices, v \in Values : PLTaskResolve(k, v)
    \/ \E k \in PLIndices, e \in Errors : PLTaskReject(k, e)
    \/ PLResumeLoop
    \/ PLReturn
    \/ PLThrow

\* =========================================================================
\* retry(fn, options)
\* =========================================================================
MaxRetriesBound == 2
MaxInitialDelay == 2
MaxMaxDelay == 3
MaxMultiplier == 2

EvInvoke == [ev |-> "invoke"]
EvOk(v) == [ev |-> "ok", value |-> v]
EvFail(e) == [ev |-> "fail", error |-> e]
EvOnRetry(e, n) == [ev |-> "onRetry", error |-> e, attempt |-> n]
EvSleep(ms) == [ev |-> "sleep", ms |-> ms]

InitRetry ==
    /\ rt_maxRetries \in -1..MaxRetriesBound
    /\ rt_initialDelay \in 0..MaxInitialDelay
    /\ rt_maxDelay \in 1..MaxMaxDelay
    /\ rt_backoffMultiplier \in 1..MaxMultiplier
    /\ rt_shouldRetry \in SUBSET Errors
    /\ rt_onRetry \in BOOLEAN
    /\ rt_attempt = 0
    /\ rt_delay = rt_initialDelay
    /\ rt_lastError = NoError
    /\ rt_pc = "call"
    /\ rt_outcome = Pending
    /\ rt_log = <<>>

\* The loop test `attempt <= maxRetries`.
RetryLoopTest(attempt, maxRetries) == attempt <= maxRetries

\* The head of the for loop with the given attempt: `return await fn()` starts
\* fn, or the loop is over and `throw lastError` runs.
RetryLoopHead(attempt) ==
    IF RetryLoopTest(attempt, rt_maxRetries)
    THEN /\ rt_pc' = "fn"
         /\ rt_log' = Append(rt_log, EvInvoke)
         /\ rt_outcome' = rt_outcome
    ELSE /\ rt_pc' = "done"
         /\ rt_log' = rt_log
         /\ rt_outcome' = Rejected(rt_lastError)

RetryCall ==
    /\ OnlyRetry
    /\ rt_pc = "call"
    /\ RetryLoopHead(rt_attempt)
    /\ UNCHANGED <<rt_maxRetries, rt_initialDelay, rt_maxDelay,
                   rt_backoffMultiplier, rt_shouldRetry, rt_onRetry,
                   rt_attempt, rt_delay, rt_lastError>>

\* fn() resolved: `return await fn()`.
RetryFnResolve(v) ==
    /\ OnlyRetry
    /\ rt_pc = "fn"
    /\ rt_pc' = "done"
    /\ rt_outcome' = [state |-> "fulfilled", value |-> v]
    /\ rt_log' = Append(rt_log, EvOk(v))
    /\ UNCHANGED <<rt_maxRetries, rt_initialDelay, rt_maxDelay,
                   rt_backoffMultiplier, rt_shouldRetry, rt_onRetry,
                   rt_attempt, rt_delay, rt_lastError>>

\* Mutant of GiveUp: shouldRetry is not consulted.
GiveUpOnlyWhenExhausted(attempt, e) == attempt = rt_maxRetries

\* `attempt === maxRetries || !shouldRetry(error)`
GiveUp(attempt, e) == attempt = rt_maxRetries \/ e \notin rt_shouldRetry

\* Mutant of SleepTime: the wait is not capped.
SleepTimeUncapped(d, maxDelay) == d

\* `Math.min(delay, maxDelay)`
SleepTime(d, maxDelay) == Min(d, maxDelay)

\* `delay *= backoffMultiplier`
NextDelay(d, multiplier) == d * multiplier

\* Mutant of BeforeSleep: onRetry gets the zero-based attempt.
BeforeSleepZeroBased(e, attempt) ==
    (IF rt_onRetry THEN <<[ev |-> "onRetry", error |-> e, attempt |-> attempt]>> ELSE <<>>)
        \o <<[ev |-> "sleep", ms |-> Min(rt_delay, rt_maxDelay)]>>

\* What the catch block does before it sleeps.
BeforeSleep(e, attempt) ==
    (IF rt_onRetry THEN <<EvOnRetry(e, attempt + 1)>> ELSE <<>>)
        \o <<EvSleep(SleepTime(rt_delay, rt_maxDelay))>>

\* fn() rejected with e: the catch block, up to its throw or its await sleep().
RetryFnReject(e) ==
    /\ OnlyRetry
    /\ rt_pc = "fn"
    /\ rt_lastError' = e
    /\ IF GiveUp(rt_attempt, e)
       THEN /\ rt_pc' = "done"
            /\ rt_outcome' = Rejected(e)
            /\ rt_log' = Append(rt_log, EvFail(e))
       ELSE /\ rt_pc' = "sleep"
            /\ rt_outcome' = rt_outcome
            /\ rt_log' = Append(rt_log, EvFail(e)) \o BeforeSleep(e, rt_attempt)
    /\ UNCHANGED <<rt_maxRetries, rt_initialDelay, rt_maxDelay,
                   rt_backoffMultiplier, rt_shouldRetry, rt_onRetry,
                   rt_attempt, rt_delay>>

\* The sleep is over: delay *= backoffMultiplier; attempt++; the loop head.
RetrySleepDone ==
    /\ OnlyRetry
    /\ rt_pc = "sleep"
    /\ rt_delay' = NextDelay(rt_delay, rt_backoffMultiplier)
    /\ rt_attempt' = rt_attempt + 1
    /\ RetryLoopHead(rt_attempt + 1)
    /\ UNCHANGED <<rt_maxRetries, rt_initialDelay, rt_maxDelay,
                   rt_backoffMultiplier, rt_shouldRetry, rt_onRetry,
                   rt_lastError>>

NextRetry ==
    \/ RetryCall
    \/ \E v \in Values : RetryFnResolve(v)
    \/ \E e \in Errors : RetryFnReject(e)
    \/ RetrySleepDone

\* =========================================================================
\* timeout(promise, ms, errorMessage?)
\* =========================================================================
MaxMs == 2
MaxTimerId == 2

\* The errorMessage argument: left out, the empty string, or a text.
Undefined == [given |-> FALSE, text |-> ""]
Text(s) == [given |-> TRUE, text |-> s]
ErrorMessages == {Undefined, Text(""), Text("too slow")}

ResolvedWith(v) == [state |-> "fulfilled", value |-> v]

\* A reason the caller's promise rejects with.
TaskError(e) == [error |-> "TaskError", message |-> e]

\* `Operation timed out after ${ms}ms`
DefaultMessage(ms) == "Operation timed out after " \o ToString(ms) \o "ms"

\* `errorMessage || default`: a left-out or empty errorMessage is falsy.
MessageOr(errorMessage, default) ==
    IF errorMessage.given /\ errorMessage.text # "" THEN errorMessage.text
    ELSE default

\* new Error(errorMessage || `Operation timed out after ${ms}ms`)
TimeoutError == [error |-> "Error",
                 message |-> MessageOr(to_errorMessage, DefaultMessage(to_ms))]

InitTimeout ==
    /\ to_promise \in {Pending} \cup {ResolvedWith(v) : v \in Values}
                       \cup {Rejected(TaskError(e)) : e \in Errors}
    /\ to_ms \in 0..MaxMs
    /\ to_errorMessage \in ErrorMessages
    /\ to_timeoutId = 0
    /\ to_timer = "none"
    /\ to_race = Pending
    /\ to_pc = "call"
    /\ to_outcome = Pending
    /\ to_first = IF to_promise = Pending THEN "none" ELSE "promise"
    /\ to_settled = 0

\* Promise.race([promise, timeoutPromise]) as called: the timer has not fired,
\* so only `promise` can have settled already.
RaceAtCall(promise) == promise

\* The call: setTimeout, Promise.race, up to the await.
TimeoutCall(id) ==
    /\ OnlyTimeout
    /\ to_pc = "call"
    /\ to_timeoutId' = id
    /\ to_timer' = "pending"
    /\ to_race' = RaceAtCall(to_promise)
    /\ to_pc' = "await"
    /\ UNCHANGED <<to_promise, to_ms, to_errorMessage, to_outcome, to_first,
                   to_settled>>

\* Mutant of RaceAfter: the last member to settle before the continuation wins.
RaceAfterLastWins(race, settlement) ==
    IF to_pc = "await" THEN settlement ELSE race

\* The first member of the race to settle settles it.
RaceAfter(race, settlement) ==
    IF to_pc = "await" /\ race = Pending THEN settlement ELSE race

\* `promise` settles (the caller's task is not touched by timeout, so it may
\* settle before the call, while it is awaited, or after timeout is done).
PromiseSettle(settlement) ==
    /\ OnlyTimeout
    /\ to_promise = Pending
    /\ to_promise' = settlement
    /\ to_race' = RaceAfter(to_race, settlement)
    /\ to_first' = IF to_first = "none" THEN "promise" ELSE to_first
    /\ UNCHANGED <<to_ms, to_errorMessage, to_timeoutId, to_timer, to_pc,
                   to_outcome, to_settled>>

\* The timer fires: the callback rejects timeoutPromise.  A timer callback is
\* a task of the event loop: it runs only once no continuation is waiting.
TimerFire ==
    /\ OnlyTimeout
    /\ to_timer = "pending"
    /\ ~(to_pc = "await" /\ to_race # Pending)
    /\ to_timer' = "fired"
    /\ to_race' = RaceAfter(to_race, Rejected(TimeoutError))
    /\ to_first' = IF to_first = "none" THEN "timer" ELSE to_first
    /\ UNCHANGED <<to_promise, to_ms, to_errorMessage, to_timeoutId, to_pc,
                   to_outcome, to_settled>>

\* Mutant of ClearTimeout: the finally block does not clear the timer.
ClearTimeoutSkipped(id, timer) == timer

\* `if (timeoutId) clearTimeout(timeoutId)`: clearing a timer that fired does nothing.
ClearTimeout(id, timer) ==
    IF id # 0 /\ timer = "pending" THEN "cleared" ELSE timer

\* The race settled: the finally block runs and the function returns or throws.
TimeoutFinish ==
    /\ OnlyTimeout
    /\ to_pc = "await"
    /\ to_race # Pending
    /\ to_timer' = ClearTimeout(to_timeoutId, to_timer)
    /\ to_outcome' = to_race
    /\ to_settled' = to_settled + 1
    /\ to_pc' = "done"
    /\ UNCHANGED <<to_promise, to_ms, to_errorMessage, to_timeoutId, to_race,
                   to_first>>

NextTimeout ==
    \/ \E id \in 1..MaxTimerId : TimeoutCall(id)
    \/ \E v \in Values : PromiseSettle(ResolvedWith(v))
    \/ \E e \in Errors : PromiseSettle(Rejected(TaskError(e)))
    \/ TimerFire
    \/ TimeoutFinish

\* =========================================================================
\* debounce(fn, ms) and debounceSync(fn, ms)
\*
\* Both keep one closure variable, timeoutId.  A call clears the timer the
\* variable names and arms a new one whose callback invokes fn with the
\* call's own arguments.  debounce wraps that in a promise per call, settled
\* by the callback only.  The timer of call number c has id c (ids of
\* setTimeout are positive, hence truthy).
\* =========================================================================
MaxDebounceCalls == 3
MaxDebounceMs == 2
MaxDebounceTime == 3

NoPromise == [state |-> "none"]

NewCall(a, now, sync) ==
    [ args       |-> a,
      at         |-> now,
      timer      |-> "pending",
      invoked    |-> 0,
      invokedAt  |-> -1,
      invokedArg |-> NoValue,
      fn         |-> "idle",
      promise    |-> IF sync THEN NoPromise ELSE Pending,
      superseded |-> FALSE ]

InitDebounce ==
    /\ db_sync \in BOOLEAN
    /\ db_ms \in 1..MaxDebounceMs
    /\ db_now = 0
    /\ db_timeoutId = 0
    /\ db_calls = <<>>

\* if (timeoutId) { clearTimeout(timeoutId); } -- clearing a timer that has
\* already fired does nothing.
ClearTimerSkipped(calls, id) == calls
ClearTimer(calls, id) ==
    IF id # 0 /\ calls[id].timer = "pending"
    THEN [calls EXCEPT ![id].timer = "cleared"]
    ELSE calls

\* History only: a call is superseded when a later call arrives while its
\* timer has not fired yet.
MarkSuperseded(calls, id) ==
    IF id # 0 /\ calls[id].timer = "pending"
    THEN [calls EXCEPT ![id].superseded = TRUE]
    ELSE calls

\* One call of the debounced function: clear, then arm a new timer.
DebounceCall(a) ==
    /\ Len(db_calls) < MaxDebounceCalls
    /\ db_calls' = Append(ClearTimer(MarkSuperseded(db_calls, db_timeoutId),
                                     db_timeoutId),
                          NewCall(a, db_now, db_sync))
    /\ db_timeoutId' = Len(db_calls) + 1
    /\ UNCHANGED <<db_sync, db_ms, db_now>>
    /\ OnlyDebounce

\* The timer callback: runs no earlier than ms after it was armed and calls
\* fn(...args) with the arguments captured by the call that armed it.
DebounceTimerFire(c) ==
    /\ c \in DOMAIN db_calls
    /\ db_calls[c].timer = "pending"
    /\ db_now >= db_calls[c].at + db_ms
    /\ db_calls' = [db_calls EXCEPT
                      ![c].timer = "fired",
                      ![c].invoked = @ + 1,
                      ![c].invokedAt = db_now,
                      ![c].invokedArg = db_calls[c].args,
                      ![c].fn = IF db_sync THEN "returned" ELSE "running"]
    /\ UNCHANGED <<db_sync, db_ms, db_now, db_timeoutId>>
    /\ OnlyDebounce

\* try { resolve(await fn(...args)) } catch (error) { reject(error) }
DebouncePromiseSwallowsError(outcome) ==
    IF outcome.state = "rejected" THEN Pending ELSE outcome
DebouncePromise(outcome) == outcome

DebounceOutcomes ==
    {ResolvedWith(v) : v \in Values} \cup {Rejected(e) : e \in Errors}

\* fn's promise settles (async variant only).
DebounceFnSettle(c, outcome) ==
    /\ ~db_sync
    /\ c \in DOMAIN db_calls
    /\ db_calls[c].fn = "running"
    /\ db_calls' = [db_calls EXCEPT
                      ![c].fn = outcome.state,
                      ![c].promise = DebouncePromise(outcome)]
    /\ UNCHANGED <<db_sync, db_ms, db_now, db_timeoutId>>
    /\ OnlyDebounce

DebounceTick ==
    /\ db_now < MaxDebounceTime
    /\ db_now' = db_now + 1
    /\ UNCHANGED <<db_sync, db_ms, db_timeoutId, db_calls>>
    /\ OnlyDebounce

NextDebounce ==
    \/ \E a \in Values : DebounceCall(a)
    \/ \E c \in 1..MaxDebounceCalls : DebounceTimerFire(c)
    \/ \E c \in 1..MaxDebounceCalls, o \in DebounceOutcomes :
            DebounceFnSettle(c, o)
    \/ DebounceTick

\* =========================================================================
\* throttle(fn, ms)
\*
\* A call that finds isThrottled set returns lastResult as it is at that
\* moment.  Any other call sets isThrottled, invokes fn and, when fn has
\* resolved, stores the value in lastResult and arms the timer that resets
\* isThrottled.  When fn rejects the await throws: no timer is armed.
\* =========================================================================
MaxThrottleCalls == 3
MaxThrottleMs == 2
MaxThrottleTime == 3

UndefinedResult == "<undefined>"

InitThrottle ==
    /\ th_ms \in 1..MaxThrottleMs
    /\ th_now = 0
    /\ th_isThrottled = FALSE
    /\ th_lastResult = UndefinedResult
    /\ th_calls = <<>>

\* if (isThrottled) return lastResult;
ThrottledCall(a) ==
    [ args |-> a, at |-> th_now, executed |-> FALSE, fn |-> "none",
      value |-> UndefinedResult, settledAfter |-> 0,
      timer |-> "none", armedAt |-> 0,
      promise |-> ResolvedWith(th_lastResult) ]

\* isThrottled = true; lastResult = await fn(...args);
ExecutedCall(a) ==
    [ args |-> a, at |-> th_now, executed |-> TRUE, fn |-> "running",
      value |-> UndefinedResult, settledAfter |-> 0,
      timer |-> "none", armedAt |-> 0,
      promise |-> Pending ]

ThrottleCall(a) ==
    /\ Len(th_calls) < MaxThrottleCalls
    /\ th_calls' = Append(th_calls, IF th_isThrottled THEN ThrottledCall(a)
                                                      ELSE ExecutedCall(a))
    /\ th_isThrottled' = TRUE
    /\ UNCHANGED <<th_ms, th_now, th_lastResult>>
    /\ OnlyThrottle

\* fn resolved: store the value, arm the release timer, return the value.
\* settledAfter records how many calls had been made by then.
ThrottleFnResolve(c, v) ==
    /\ c \in DOMAIN th_calls
    /\ th_calls[c].fn = "running"
    /\ th_lastResult' = v
    /\ th_calls' = [th_calls EXCEPT
                      ![c].fn = "fulfilled",
                      ![c].value = v,
                      ![c].settledAfter = Len(th_calls),
                      ![c].timer = "pending",
                      ![c].armedAt = th_now,
                      ![c].promise = ResolvedWith(v)]
    /\ UNCHANGED <<th_ms, th_now, th_isThrottled>>
    /\ OnlyThrottle

\* fn rejected: the await throws, the call's promise rejects, and neither
\* lastResult nor isThrottled is touched.
ThrottleFnReject(c, e) ==
    /\ c \in DOMAIN th_calls
    /\ th_calls[c].fn = "running"
    /\ th_calls' = [th_calls EXCEPT
                      ![c].fn = "rejected",
                      ![c].settledAfter = Len(th_calls),
                      ![c].promise = Rejected(e)]
    /\ UNCHANGED <<th_ms, th_now, th_isThrottled, th_lastResult>>
    /\ OnlyThrottle

\* setTimeout(() => { isThrottled = false; }, ms)
ReleaseDelayNone(ms) == 0
ReleaseDelay(ms) == ms

ThrottleTimerFire(c) ==
    /\ c \in DOMAIN th_calls
    /\ th_calls[c].timer = "pending"
    /\ th_now >= th_calls[c].armedAt + ReleaseDelay(th_ms)
    /\ th_isThrottled' = FALSE
    /\ th_calls' = [th_calls EXCEPT ![c].timer = "fired"]
    /\ UNCHANGED <<th_ms, th_now, th_lastResult>>
    /\ OnlyThrottle

ThrottleTick ==
    /\ th_now < MaxThrottleTime
    /\ th_now' = th_now + 1
    /\ UNCHANGED <<th_ms, th_isThrottled, th_lastResult, th_calls>>
    /\ OnlyThrottle

NextThrottle ==
    \/ \E a \in Values : ThrottleCall(a)
    \/ \E c \in 1..MaxThrottleCalls, v \in Values : ThrottleFnResolve(c, v)
    \/ \E c \in 1..MaxThrottleCalls, e \in Errors : ThrottleFnReject(c, e)
    \/ \E c \in 1..MaxThrottleCalls : ThrottleTimerFire(c)
    \/ ThrottleTick

\* =========================================================================
\* asyncMap(array, mapper) and asyncFilter(array, predicate)
\*
\* One for loop over the indices; an element that is undefined is passed
\* over without a callback call; every other element's callback is awaited
\* inside the loop body.  Everything between two awaits is one step.
\* =========================================================================
MaxArrayLen == 3

UndefinedItem == "<undefined>"
Items == Values \cup {UndefinedItem}
Arrays == UNION {[1..n -> Items] : n \in 0..MaxArrayLen}

AmInvoke(i, item) == [kind |-> "invoke", index |-> i, item |-> item]
AmSettle(i, st, v) == [kind |-> "settle", index |-> i, state |-> st, value |-> v]

InitAsyncMap ==
    /\ am_filter \in BOOLEAN
    /\ am_array \in Arrays
    /\ am_i = 0
    /\ am_pc = "start"
    /\ am_results = <<>>
    /\ am_outcome = Pending
    /\ am_log = <<>>

\* for (...; i < array.length; i++) { const item = array[i];
\*   if (item !== undefined ...) -- the first index from i on whose element
\* gets a callback call, or array.length.
RECURSIVE AmNextCalled(_, _)
AmNextCalled(array, i) ==
    IF i >= Len(array) THEN Len(array)
    ELSE IF array[i + 1] # UndefinedItem THEN i
    ELSE AmNextCalled(array, i + 1)

\* Run the loop from index `from` up to the next callback call, or to
\* `return results`.
AmRunLoop(from, results, log) ==
    LET j == AmNextCalled(am_array, from)
    IN /\ am_i' = j
       /\ am_results' = results
       /\ IF j >= Len(am_array)
          THEN /\ am_pc' = "done"
               /\ am_outcome' = ResolvedWith(results)
               /\ am_log' = log
          ELSE /\ am_pc' = "await"
               /\ am_outcome' = am_outcome
               /\ am_log' = Append(log, AmInvoke(j, am_array[j + 1]))

AsyncMapCall ==
    /\ am_pc = "start"
    /\ AmRunLoop(0, <<>>, am_log)
    /\ UNCHANGED <<am_filter, am_array>>
    /\ OnlyAsyncMap

\* results.push(await mapper(item, i)) -- the mapper's promise fulfilled.
AsyncMapperResolve(v) ==
    /\ ~am_filter
    /\ am_pc = "await"
    /\ AmRunLoop(am_i + 1, Append(am_results, v),
                 Append(am_log, AmSettle(am_i, "fulfilled", v)))
    /\ UNCHANGED <<am_filter, am_array>>
    /\ OnlyAsyncMap

\* if (... && (await predicate(item, i))) results.push(item)
AsyncPredicateResolve(b) ==
    /\ am_filter
    /\ am_pc = "await"
    /\ AmRunLoop(am_i + 1,
                 IF b THEN Append(am_results, am_array[am_i + 1])
                      ELSE am_results,
                 Append(am_log, AmSettle(am_i, "fulfilled", b)))
    /\ UNCHANGED <<am_filter, am_array>>
    /\ OnlyAsyncMap

\* The awaited promise rejected: the await throws out of the async function.
AsyncCallbackRejectSkipsItem(e) ==
    /\ am_pc = "await"
    /\ AmRunLoop(am_i + 1, am_results,
                 Append(am_log, AmSettle(am_i, "rejected", e)))
    /\ UNCHANGED <<am_filter, am_array>>
    /\ OnlyAsyncMap
AsyncCallbackReject(e) ==
    /\ am_pc = "await"
    /\ am_pc' = "done"
    /\ am_outcome' = Rejected(e)
    /\ am_log' = Append(am_log, AmSettle(am_i, "rejected", e))
    /\ UNCHANGED <<am_filter, am_array, am_i, am_results>>
    /\ OnlyAsyncMap

NextAsyncMap ==
    \/ AsyncMapCall
    \/ \E v \in Values : AsyncMapperResolve(v)
    \/ \E b \in BOOLEAN : AsyncPredicateResolve(b)
    \/ \E e \in Errors : AsyncCallbackReject(e)

\* =========================================================================
\* batchExecute(tasks, chunkSize)
\*
\* Each iteration slices the next chunk, starts all its tasks, awaits
\* Promise.all of them and appends the values; i advances by chunkSize, so
\* with chunkSize <= 0 the loop condition i < tasks.length never turns
\* false once it held.
\* =========================================================================
MaxBatchTasks == 4
MaxChunkSize == 3
MinChunkSize == -1
MaxBatchBacksteps == 2

Max(a, b) == IF a >= b THEN a ELSE b

Idle == [state |-> "idle"]

\* Array.prototype.slice(start, end) on an array of length n: a negative
\* bound counts from the end, both bounds are clamped to 0..n; the result
\* is the sequence of 0-based indices taken.
SliceBound(n, b) == IF b < 0 THEN Max(n + b, 0) ELSE Min(b, n)
SliceIndices(n, start, end) ==
    LET from == SliceBound(n, start)
        to == SliceBound(n, end)
    IN [j \in 1..Max(to - from, 0) |-> from + j - 1]

InitBatch ==
    /\ be_tasks \in {[k \in 1..n |-> Idle] : n \in 0..MaxBatchTasks}
    /\ be_chunkSize \in MinChunkSize..MaxChunkSize
    /\ be_i = 0
    /\ be_chunk = <<>>
    /\ be_all = Pending
    /\ be_pc = "start"
    /\ be_results = <<>>
    /\ be_outcome = Pending

BatchRange(chunk) == {chunk[j] : j \in DOMAIN chunk}

\* for (let i = ...; i < tasks.length; ...) { chunk = tasks.slice(i, i +
\* chunkSize); await Promise.all(chunk.map((task) => task())) -- or, when
\* the loop condition fails, return results.
BatchLoopTest(i, results) ==
    /\ be_i' = i
    /\ be_results' = results
    /\ IF i < Len(be_tasks)
       THEN LET chunk == SliceIndices(Len(be_tasks), i, i + be_chunkSize)
            IN /\ be_chunk' = chunk
               /\ be_tasks' = [k \in DOMAIN be_tasks |->
                                 IF k - 1 \in BatchRange(chunk)
                                 THEN Pending ELSE be_tasks[k]]
               /\ be_all' = IF chunk = <<>> THEN Fulfilled ELSE Pending
               /\ be_pc' = "await"
               /\ be_outcome' = be_outcome
       ELSE /\ be_pc' = "done"
            /\ be_outcome' = ResolvedWith(results)
            /\ UNCHANGED <<be_chunk, be_tasks, be_all>>

BatchCall ==
    /\ be_pc = "start"
    /\ BatchLoopTest(0, <<>>)
    /\ UNCHANGED be_chunkSize
    /\ OnlyBatch

\* Promise.all of the chunk after one more member has settled: fulfilled
\* when every member is, rejected with the reason of the first member to
\* reject.
AllAfter(all, tasks, chunk, settled) ==
    IF all # Pending THEN all
    ELSE IF settled.state = "rejected" THEN Rejected(settled.reason)
    ELSE IF \A k \in BatchRange(chunk) : tasks[k + 1].state = "fulfilled"
         THEN Fulfilled
         ELSE Pending

BatchTaskSettle(k, outcome) ==
    /\ k + 1 \in DOMAIN be_tasks
    /\ be_tasks[k + 1] = Pending
    /\ be_tasks' = [be_tasks EXCEPT ![k + 1] = outcome]
    /\ be_all' = IF k \in BatchRange(be_chunk) /\ be_pc = "await"
                 THEN AllAfter(be_all, be_tasks', be_chunk, outcome)
                 ELSE be_all
    /\ UNCHANGED <<be_chunkSize, be_i, be_chunk, be_pc, be_results,
                   be_outcome>>
    /\ OnlyBatch

BatchTaskResolve(k, v) == BatchTaskSettle(k, ResolvedWith(v))
BatchTaskReject(k, e) == BatchTaskSettle(k, Rejected(e))

\* results.push(...chunkResults): the values of the chunk in chunk order.
ChunkResultsReversed(chunk) ==
    [j \in DOMAIN chunk |-> be_tasks[chunk[Len(chunk) + 1 - j] + 1].value]
ChunkResults(chunk) ==
    [j \in DOMAIN chunk |-> be_tasks[chunk[j] + 1].value]

\* The continuation of the await once Promise.all has fulfilled: push the
\* values and go round the loop (i += chunkSize).
BatchResume ==
    /\ be_pc = "await"
    /\ be_all = Fulfilled
    /\ be_i + be_chunkSize >= -MaxBatchBacksteps
    /\ BatchLoopTest(be_i + be_chunkSize,
                     be_results \o ChunkResults(be_chunk))
    /\ UNCHANGED be_chunkSize
    /\ OnlyBatch

\* The continuation once Promise.all has rejected: the await throws.
BatchThrow ==
    /\ be_pc = "await"
    /\ be_all \notin {Pending, Fulfilled}
    /\ be_pc' = "done"
    /\ be_outcome' = be_all
    /\ UNCHANGED <<be_tasks, be_chunkSize, be_i, be_chunk, be_all,
                   be_results>>
    /\ OnlyBatch

NextBatch ==
    \/ BatchCall
    \/ \E k \in 0..MaxBatchTasks, v \in Values : BatchTaskResolve(k, v)
    \/ \E k \in 0..MaxBatchTasks, e \in Errors : BatchTaskReject(k, e)
    \/ BatchResume
    \/ BatchThrow

\* =========================================================================
\* waitFor(condition, { interval, timeout, onFinish, onTimeout })
\*
\* while (true): evaluate the condition and await it; a truthy result ends
\* the wait; otherwise the deadline is tested, and only then the loop
\* sleeps for interval ms.  The deadline is looked at nowhere else.
\* =========================================================================
MaxWaitInterval == 2
MaxWaitTimeout == 3
MaxWaitTime == MaxWaitTimeout + MaxWaitInterval

WfPoll(t) == [kind |-> "poll", at |-> t]
WfResult(t, r) == [kind |-> "result", at |-> t, result |-> r]
WfCallback(t, name) == [kind |-> name, at |-> t]

InitWaitFor ==
    /\ wf_interval \in 1..MaxWaitInterval
    /\ wf_timeoutMs \in 0..MaxWaitTimeout
    /\ wf_onFinish \in BOOLEAN
    /\ wf_onTimeout \in BOOLEAN
    /\ wf_now = 0
    /\ wf_startTime = 0
    /\ wf_sleepStart = 0
    /\ wf_pc = "start"
    /\ wf_outcome = Pending
    /\ wf_log = <<>>

\* const startTime = Date.now(); then the first condition() call.
WaitForCall ==
    /\ wf_pc = "start"
    /\ wf_startTime' = wf_now
    /\ wf_pc' = "condition"
    /\ wf_log' = Append(wf_log, WfPoll(wf_now))
    /\ UNCHANGED <<wf_interval, wf_timeoutMs, wf_onFinish, wf_onTimeout,
                   wf_now, wf_sleepStart, wf_outcome>>
    /\ OnlyWaitFor

\* if (onFinish) { onFinish(); }
OnFinishThenOnTimeout(given, t) ==
    IF given THEN <<WfCallback(t, "onFinish"), WfCallback(t, "onTimeout")>>
    ELSE <<>>
OnFinishCall(given, t) ==
    IF given THEN <<WfCallback(t, "onFinish")>> ELSE <<>>

\* if (result) { if (onFinish) onFinish(); return; }
WaitForConditionTrue ==
    /\ wf_pc = "condition"
    /\ wf_pc' = "done"
    /\ wf_outcome' = Fulfilled
    /\ wf_log' = wf_log \o <<WfResult(wf_now, "true")>>
                        \o OnFinishCall(wf_onFinish, wf_now)
    /\ UNCHANGED <<wf_interval, wf_timeoutMs, wf_onFinish, wf_onTimeout,
                   wf_now, wf_startTime, wf_sleepStart>>
    /\ OnlyWaitFor

\* throw new Error(`Condition not met within ${timeoutMs}ms`)
TimeoutMessage(ms) == "Condition not met within " \o ToString(ms) \o "ms"

\* if (Date.now() - startTime >= timeoutMs)
DeadlineStrictlyPassed(now, start, ms) == now - start > ms
DeadlinePassed(now, start, ms) == now - start >= ms

\* A falsy result: either the deadline branch (onTimeout, throw) or
\* await sleep(interval).
WaitForConditionFalse ==
    /\ wf_pc = "condition"
    /\ IF DeadlinePassed(wf_now, wf_startTime, wf_timeoutMs)
       THEN /\ wf_pc' = "done"
            /\ wf_outcome' = Rejected(TimeoutMessage(wf_timeoutMs))
            /\ wf_log' = wf_log \o <<WfResult(wf_now, "false")>>
                                \o (IF wf_onTimeout
                                    THEN <<WfCallback(wf_now, "onTimeout")>>
                                    ELSE <<>>)
            /\ UNCHANGED wf_sleepStart
       ELSE /\ wf_pc' = "sleep"
            /\ wf_sleepStart' = wf_now
            /\ wf_log' = Append(wf_log, WfResult(wf_now, "false"))
            /\ UNCHANGED wf_outcome
    /\ UNCHANGED <<wf_interval, wf_timeoutMs, wf_onFinish, wf_onTimeout,
                   wf_now, wf_startTime>>
    /\ OnlyWaitFor

\* condition() throws or its promise rejects: the await throws.
WaitForConditionThrows(e) ==
    /\ wf_pc = "condition"
    /\ wf_pc' = "done"
    /\ wf_outcome' = Rejected(e)
    /\ wf_log' = Append(wf_log, WfResult(wf_now, "throws"))
    /\ UNCHANGED <<wf_interval, wf_timeoutMs, wf_onFinish, wf_onTimeout,
                   wf_now, wf_startTime, wf_sleepStart>>
    /\ OnlyWaitFor

\* sleep(interval) is over, no earlier than interval ms after it started:
\* the loop goes round and evaluates the condition again.
WaitForSleepDone ==
    /\ wf_pc = "sleep"
    /\ wf_now >= wf_sleepStart + wf_interval
    /\ wf_pc' = "condition"
    /\ wf_log' = Append(wf_log, WfPoll(wf_now))
    /\ UNCHANGED <<wf_interval, wf_timeoutMs, wf_onFinish, wf_onTimeout,
                   wf_now, wf_startTime, wf_sleepStart, wf_outcome>>
    /\ OnlyWaitFor

WaitForTick ==
    /\ wf_pc \in {"condition", "sleep"}
    /\ wf_now < MaxWaitTime
    /\ wf_now' = wf_now + 1
    /\ UNCHANGED <<wf_interval, wf_timeoutMs, wf_onFinish, wf_onTimeout,
                   wf_startTime, wf_sleepStart, wf_pc, wf_outcome, wf_log>>
    /\ OnlyWaitFor

NextWaitFor ==
    \/ WaitForCall
    \/ WaitForConditionTrue
    \/ WaitForConditionFalse
    \/ \E e \in Errors : WaitForConditionThrows(e)
    \/ WaitForSleepDone
    \/ WaitForTick

\* =========================================================================
\* memoizeAsync(fn, { keyGenerator, ttl })
\*
\* A call looks its key up; a present entry is returned unless a ttl is in
\* force and the entry is at least ttl ms old, in which case it is deleted.
\* Without a usable entry fn is invoked and, when it has resolved, the value
\* is stored with the time of the store.  Nothing is recorded about calls
\* in flight.
\* =========================================================================
MaxMemoCalls == 2
MaxTtl == 2
MaxMemoTime == 2

MemoArgs == {"x", "y"}

\* keyGenerator = (...args) => JSON.stringify(args), for one string argument.
JsonStringifyArgs(a) == "[\"" \o a \o "\"]"
MemoKeys == {JsonStringifyArgs(a) : a \in MemoArgs}

NoTtl == [given |-> FALSE, ms |-> 0]
Ttl(n) == [given |-> TRUE, ms |-> n]

NoEntry == [present |-> FALSE, value |-> NoValue, timestamp |-> 0]
Entry(v, t) == [present |-> TRUE, value |-> v, timestamp |-> t]

InitMemo ==
    /\ mz_ttl \in {NoTtl} \cup {Ttl(n) : n \in 0..MaxTtl}
    /\ mz_now = 0
    /\ mz_cache = [k \in MemoKeys |-> NoEntry]
    /\ mz_calls = <<>>
    /\ mz_resolved = <<>>

\* if (!ttl || Date.now() - cached.timestamp < ttl) -- !ttl holds for an
\* absent ttl and for 0.
EntryUsable(ttl, now, cached) ==
    (~ttl.given \/ ttl.ms = 0) \/ now - cached.timestamp < ttl.ms

\* Whether a call goes on to fn: no entry, or an entry that is not usable.
\* (The calls in flight play no part.)
CallsFnUnlessInFlight(calls, key, cached, ttl, now) ==
    /\ ~(cached.present /\ EntryUsable(ttl, now, cached))
    /\ \A c \in DOMAIN calls :
          ~(calls[c].key = key /\ calls[c].fn = "running")
CallsFn(calls, key, cached, ttl, now) ==
    ~(cached.present /\ EntryUsable(ttl, now, cached))

\* One call of the memoized function, up to `return cached.value` or to
\* the call of fn.
MemoCall(a) ==
    /\ Len(mz_calls) < MaxMemoCalls
    /\ LET key == JsonStringifyArgs(a)
           cached == mz_cache[key]
           miss == CallsFn(mz_calls, key, cached, mz_ttl, mz_now)
           evict == cached.present /\ ~EntryUsable(mz_ttl, mz_now, cached)
       IN /\ mz_calls' = Append(mz_calls,
                [ key     |-> key,
                  at      |-> mz_now,
                  saw     |-> cached,
                  evicted |-> evict,
                  fn      |-> IF miss THEN "running" ELSE "none",
                  promise |-> IF miss THEN Pending
                                      ELSE ResolvedWith(cached.value) ])
          /\ mz_cache' = IF evict THEN [mz_cache EXCEPT ![key] = NoEntry]
                                  ELSE mz_cache
    /\ UNCHANGED <<mz_ttl, mz_now, mz_resolved>>
    /\ OnlyMemo

\* const value = await fn(...args); cache.set(key, { value, timestamp:
\* Date.now() }); return value;
MemoFnResolve(c, v) ==
    /\ c \in DOMAIN mz_calls
    /\ mz_calls[c].fn = "running"
    /\ mz_calls' = [mz_calls EXCEPT ![c].fn = "fulfilled",
                                    ![c].promise = ResolvedWith(v)]
    /\ mz_cache' = [mz_cache EXCEPT ![mz_calls[c].key] = Entry(v, mz_now)]
    /\ mz_resolved' = Append(mz_resolved,
                             [call |-> c, value |-> v, at |-> mz_now,
                              issued |-> Len(mz_calls)])
    /\ UNCHANGED <<mz_ttl, mz_now>>
    /\ OnlyMemo

\* await fn(...args) throws: nothing is stored.
MemoFnReject(c, e) ==
    /\ c \in DOMAIN mz_calls
    /\ mz_calls[c].fn = "running"
    /\ mz_calls' = [mz_calls EXCEPT ![c].fn = "rejected",
                                    ![c].promise = Rejected(e)]
    /\ UNCHANGED <<mz_ttl, mz_now, mz_cache, mz_resolved>>
    /\ OnlyMemo

MemoTick ==
    /\ mz_now < MaxMemoTime
    /\ mz_now' = mz_now + 1
    /\ UNCHANGED <<mz_ttl, mz_cache, mz_calls, mz_resolved>>
    /\ OnlyMemo

NextMemo ==
    \/ \E a \in MemoArgs : MemoCall(a)
    \/ \E c \in 1..MaxMemoCalls, v \in Values : MemoFnResolve(c, v)
    \/ \E c \in 1..MaxMemoCalls, e \in Errors : MemoFnReject(c, e)
    \/ MemoTick

\* =========================================================================
\* truncate(str, maxLength, ellipsis = "...")
\*
\* Strings are sequences of characters.  The cut is str.slice(0, maxLength -
\* ellipsis.length), whose end is negative when maxLength is smaller than
\* the ellipsis is long.
\* =========================================================================
MaxStrLen == 5
MaxMaxLength == 6

Chars == {"a", "b"}
Strings == UNION {[1..n -> Chars] : n \in 0..MaxStrLen}
DefaultEllipsis == <<".", ".", ".">>
Ellipses == {DefaultEllipsis, <<"~">>, <<>>}

\* String.prototype.slice(start, end)
StrSlice(s, start, end) ==
    LET from == SliceBound(Len(s), start)
        to == SliceBound(Len(s), end)
    IN [j \in 1..Max(to - from, 0) |-> s[from + j]]

\* if (str.length <= maxLength) return str;
\* return str.slice(0, maxLength - ellipsis.length) + ellipsis;
Truncate(str, maxLength, ellipsis) ==
    IF Len(str) <= maxLength THEN str
    ELSE StrSlice(str, 0, maxLength - Len(ellipsis)) \o ellipsis

InitTruncate ==
    /\ tr_str \in Strings
    /\ tr_maxLength \in 0..MaxMaxLength
    /\ tr_ellipsis \in Ellipses
    /\ tr_pc = "call"
    /\ tr_result = <<>>

TruncateCall ==
    /\ tr_pc = "call"
    /\ tr_result' = Truncate(tr_str, tr_maxLength, tr_ellipsis)
    /\ tr_pc' = "returned"
    /\ UNCHANGED <<tr_str, tr_maxLength, tr_ellipsis>>
    /\ OnlyTruncate

NextTruncate == TruncateCall

\* =========================================================================
\* deepClone(obj) and deepMerge(target, source)
\*
\* A JavaScript value is a record (kind, val): a number, an array (val a
\* sequence of values) or a plain record (val a function from its own keys
\* to values).  The merge starts from a deep clone of the target and
\* assigns every own key of the source.
\* =========================================================================
Num(n) == [kind |-> "number", val |-> n]
Arr(items) == [kind |-> "array", val |-> items]
Obj(fields) == [kind |-> "object", val |-> fields]

\* All plain records over the given keys with values from the given set.
Records(keys, values) ==
    {Obj(f) : f \in UNION {[ks -> values] : ks \in SUBSET keys}}

InnerValues == {Num(2), Num(3), Arr(<<Num(1)>>)}
InnerRecords == Records({"c", "d"}, InnerValues)
OuterValues ==
    {Num(1), Arr(<<Num(1)>>), Arr(<<Num(2)>>)} \cup InnerRecords
OuterRecords == Records({"a", "b"}, OuterValues)

OwnKeys(o) == DOMAIN o.val

\* deepClone: primitives as they are, arrays and plain records rebuilt
\* element by element and own key by own key.
RECURSIVE DeepClone(_)
DeepClone(v) ==
    CASE v.kind = "array" ->
            Arr([i \in DOMAIN v.val |-> DeepClone(v.val[i])])
      [] v.kind = "object" ->
            Obj([k \in OwnKeys(v) |-> DeepClone(v.val[k])])
      [] OTHER -> v

\* sourceValue && typeof sourceValue === "object" && !Array.isArray(...)
\* && !(... instanceof Date) && !(... instanceof RegExp)
IsMergeableSource(v) == v.kind = "object"

\* targetValue && typeof targetValue === "object" && !Array.isArray(...)
IsObjectTargetNever(v) == FALSE
IsObjectTarget(v) == v.kind = "object"

\* result = deepClone(target); for (const key in source) result[key] = ...
RECURSIVE DeepMerge(_, _)
DeepMerge(target, source) ==
    Obj([k \in OwnKeys(target) \cup OwnKeys(source) |->
           IF k \notin OwnKeys(source) THEN DeepClone(target.val[k])
           ELSE IF /\ IsMergeableSource(source.val[k])
                   /\ k \in OwnKeys(target)
                   /\ IsObjectTarget(target.val[k])
                THEN DeepMerge(DeepClone(target.val[k]), source.val[k])
                ELSE DeepClone(source.val[k])])

InitDeepMerge ==
    /\ dm_target \in OuterRecords
    /\ dm_source \in OuterRecords
    /\ dm_pc = "call"
    /\ dm_result = Obj(<<>>)

DeepMergeCall ==
    /\ dm_pc = "call"
    /\ dm_result' = DeepMerge(dm_target, dm_source)
    /\ dm_pc' = "returned"
    /\ UNCHANGED <<dm_target, dm_source>>
    /\ OnlyDeepMerge

NextDeepMerge == DeepMergeCall

\* =========================================================================
\* getPath(obj, path, defaultValue), hasPath(obj, path), setPath(obj, path,
\* value)
\*
\* A path is a string, here a sequence of characters, cut at every "." by
\* split; a segment may be empty.  Keys of the records of this part are
\* such character sequences.  null and undefined are values of their own:
\* typeof null is "object", but null is falsy and has no properties.
\* =========================================================================
MaxPathLen == 3

Null == [kind |-> "null", val |-> 0]
Undef == [kind |-> "undefined", val |-> 0]
EmptyRecord == Obj(<<>>)

PathChars == {"a", "b", "."}
Paths == UNION {[1..n -> PathChars] : n \in 0..MaxPathLen}
PathKeys == {<<"a">>, <<"b">>}

PathInnerValues == {Num(1), Null}
PathInnerRecords == Records(PathKeys, PathInnerValues)
PathOuterValues == {Num(1), Null, Undef} \cup PathInnerRecords
PathRecords == Records(PathKeys, PathOuterValues)

\* path.split(".")
RECURSIVE SplitFrom(_, _, _)
SplitFrom(s, i, segment) ==
    IF i > Len(s) THEN <<segment>>
    ELSE IF s[i] = "." THEN <<segment>> \o SplitFrom(s, i + 1, <<>>)
    ELSE SplitFrom(s, i + 1, Append(segment, s[i]))
SplitDot(s) == SplitFrom(s, 1, <<>>)

\* typeof v === "object"
TypeofObject(v) == v.kind \in {"object", "array", "null"}

\* result && typeof result === "object" && key in result
HasKey(v, key) == v.kind = "object" /\ key \in DOMAIN v.val

\* result = result[key]
DescendStays(v, key) == v
Descend(v, key) == v.val[key]

\* getPath: for (const key of keys) { if (...) result = result[key];
\* else return defaultValue; } return result;
RECURSIVE GetPathFrom(_, _, _, _)
GetPathFrom(result, keys, i, defaultValue) ==
    IF i > Len(keys) THEN result
    ELSE IF HasKey(result, keys[i])
         THEN GetPathFrom(Descend(result, keys[i]), keys, i + 1, defaultValue)
         ELSE defaultValue
GetPath(obj, path, defaultValue) ==
    GetPathFrom(obj, SplitDot(path), 1, defaultValue)

\* hasPath: the same loop, returning false / true.
RECURSIVE HasPathFrom(_, _, _)
HasPathFrom(current, keys, i) ==
    IF i > Len(keys) THEN TRUE
    ELSE IF HasKey(current, keys[i])
         THEN HasPathFrom(Descend(current, keys[i]), keys, i + 1)
         ELSE FALSE
HasPath(obj, path) == HasPathFrom(obj, SplitDot(path), 1)

Threw(v) == [threw |-> TRUE, obj |-> v]
Returned(v) == [threw |-> FALSE, obj |-> v]

\* current[key] = value, on a record.
WithKey(current, key, value) ==
    Obj([k \in DOMAIN current.val \cup {key} |->
           IF k = key THEN value ELSE current.val[k]])

\* if (!(key in current) || typeof current[key] !== "object")
\*     current[key] = {};
NeedsContainer(current, key) ==
    \/ key \notin DOMAIN current.val
    \/ ~TypeofObject(current.val[key])

\* setPath from segment i on, current being the container reached.  `key in
\* current` and `current[lastKey] = value` throw a TypeError when current
\* is null.  The outcome is the container as the call left it.
RECURSIVE SetPathFrom(_, _, _, _)
SetPathFrom(current, keys, i, value) ==
    IF i = Len(keys)
    THEN IF keys[i] = <<>> THEN Returned(current)
         ELSE IF current.kind = "null" THEN Threw(current)
         ELSE Returned(WithKey(current, keys[i], value))
    ELSE IF keys[i] = <<>> THEN SetPathFrom(current, keys, i + 1, value)
    ELSE IF current.kind = "null" THEN Threw(current)
    ELSE LET key == keys[i]
             child == IF NeedsContainer(current, key) THEN EmptyRecord
                      ELSE current.val[key]
             inner == SetPathFrom(child, keys, i + 1, value)
         IN [threw |-> inner.threw,
             obj |-> WithKey(current, key, inner.obj)]
SetPath(obj, path, value) == SetPathFrom(obj, SplitDot(path), 1, value)

InitPath ==
    /\ pa_obj \in PathRecords
    /\ pa_path \in Paths
    /\ pa_default \in {Undef, Num(1)}
    /\ pa_value \in {Num(2), Undef}
    /\ pa_pc = "call"
    /\ pa_threw = FALSE
    /\ pa_after = pa_obj
    /\ pa_got = Undef
    /\ pa_has = FALSE

\* getPath(obj, path, d) and hasPath(obj, path) on the same arguments.
GetAndHasPathCall ==
    /\ pa_pc = "call"
    /\ pa_got' = GetPath(pa_obj, pa_path, pa_default)
    /\ pa_has' = HasPath(pa_obj, pa_path)
    /\ pa_pc' = "read"
    /\ UNCHANGED <<pa_obj, pa_path, pa_default, pa_value, pa_threw, pa_after>>
    /\ OnlyPath

\* setPath(obj, path, v), and, if it returned, getPath(obj, path, d) and
\* hasPath(obj, path) on the object it changed.
SetPathCall ==
    /\ pa_pc = "call"
    /\ LET out == SetPath(pa_obj, pa_path, pa_value)
       IN /\ pa_threw' = out.threw
          /\ pa_after' = out.obj
          /\ pa_got' = IF out.threw THEN pa_got
                       ELSE GetPath(out.obj, pa_path, pa_default)
          /\ pa_has' = IF out.threw THEN pa_has
                       ELSE HasPath(out.obj, pa_path)
    /\ pa_pc' = "written"
    /\ UNCHANGED <<pa_obj, pa_path, pa_default, pa_value>>
    /\ OnlyPath

NextPath ==
    \/ GetAndHasPathCall
    \/ SetPathCall

\* =========================================================================
\* ok / failure / isSuccessResult / isFailureResult
\* (src/models/result.model.ts and src/unnamed/part_003)
\*
\* Two versions of the module are in the repository. part_003 adds a
\* __brand field to the values ok and failure build, and its guards take an
\* unknown value and test its shape field by field.
\* =========================================================================

Bool(b) == [kind |-> "boolean", val |-> b]
Str(s) == [kind |-> "string", val |-> s]

\* typeof v
Typeof(v) == IF TypeofObject(v) THEN "object" ELSE v.kind

\* v === w, for primitives
StrictEquals(v, w) == v.kind = w.kind /\ v.val = w.val

\* key in o
In(key, o) == key \in DOMAIN o.val

\* o[key]: undefined for a key the object does not have
Prop(o, key) == IF key \in DOMAIN o.val THEN o.val[key] ELSE Undef

ValidationError ==
    [code |-> Str("common.validation_error"),
     statusCode |-> Num(422),
     description |-> Str("One or more validation errors occurred.")]
ErrorModels == {ValidationError}

FieldErrors == {Undef, Obj("name" :> Arr(<<Str("Required")>>))}
OkData == {Undef, Num(5)}

\* ok(data), result.model.ts
Ok(data) ==
    IF data.kind = "undefined"
    THEN Obj("success" :> Bool(TRUE))
    ELSE Obj("success" :> Bool(TRUE) @@ "data" :> data)

\* failure(error, fieldErrors), result.model.ts
Failure(error, fieldErrors) ==
    Obj("success" :> Bool(FALSE) @@ "code" :> error.code
        @@ "statusCode" :> error.statusCode
        @@ "description" :> error.description
        @@ "fieldErrors" :> fieldErrors)

\* isFailureResult(result), result.model.ts
IsFailureResult(result) ==
    \/ StrictEquals(Prop(result, "success"), Bool(FALSE))
    \/ /\ StrictEquals(Prop(result, "success"), Undef)
       /\ In("code", result)
       /\ In("description", result)
       /\ In("statusCode", result)

\* isSuccessResult(result), result.model.ts
IsSuccessResult(result) == StrictEquals(Prop(result, "success"), Bool(TRUE))

\* ok(data), part_003
BrandedOk(data) ==
    IF data.kind = "undefined"
    THEN Obj("__brand" :> Str("successResult") @@ "success" :> Bool(TRUE))
    ELSE Obj("__brand" :> Str("successResult") @@ "success" :> Bool(TRUE)
             @@ "data" :> data)

\* failure(error, fieldErrors), part_003
BrandedFailure(error, fieldErrors) ==
    Obj("__brand" :> Str("failureResult") @@ "success" :> Bool(FALSE)
        @@ "code" :> error.code
        @@ "statusCode" :> error.statusCode
        @@ "description" :> error.description
        @@ "fieldErrors" :> fieldErrors)

\* typeof result.success === "boolean", the fourth test of part_003's
\* isFailureResult
SuccessIsBoolean(result) == Typeof(Prop(result, "success")) = "boolean"

\* isFailureResult(result), part_003
BrandedIsFailureResult(result) ==
    /\ Typeof(result) = "object"
    /\ result.kind # "null"
    /\ In("success", result)
    /\ SuccessIsBoolean(result)
    /\ \/ StrictEquals(Prop(result, "success"), Bool(FALSE))
       \/ StrictEquals(Prop(result, "success"), Undef)
    /\ In("__brand", result)
    /\ StrictEquals(Prop(result, "__brand"), Str("failureResult"))
    /\ In("code", result)
    /\ Prop(result, "code").kind # "undefined"
    /\ Typeof(Prop(result, "code")) = "string"
    /\ In("statusCode", result)
    /\ Typeof(Prop(result, "statusCode")) = "number"
    /\ In("description", result)
    /\ Typeof(Prop(result, "description")) = "string"

\* isSuccessResult(result), part_003
BrandedIsSuccessResult(result) ==
    /\ Typeof(result) = "object"
    /\ result.kind # "null"
    /\ In("success", result)
    /\ StrictEquals(Prop(result, "success"), Bool(TRUE))
    /\ In("__brand", result)
    /\ StrictEquals(Prop(result, "__brand"), Str("successResult"))

\* Values a caller can hold under the Result type or get from a parsed
\* response: any subset of the fields, each with a value of its kind.
ResultFields == {"__brand", "success", "code", "statusCode", "description"}
FieldOptions(k) ==
    CASE k = "__brand" -> {Str("successResult"), Str("failureResult")}
      [] k = "success" -> {Bool(TRUE), Bool(FALSE), Undef}
      [] k = "code" -> {Str("common.validation_error")}
      [] k = "statusCode" -> {Num(422)}
      [] k = "description" -> {Str("One or more validation errors occurred.")}
GivenResults ==
    {Obj(f) : f \in UNION {
        {g \in [ks -> UNION {FieldOptions(k) : k \in ks}] :
            \A k \in ks : g[k] \in FieldOptions(k)} :
        ks \in SUBSET ResultFields}}

InitResult ==
    /\ rs_branded \in BOOLEAN
    /\ rs_built = "given"
    /\ rs_result = EmptyRecord
    /\ rs_pc = "start"
    /\ rs_isSuccess = FALSE
    /\ rs_isFailure = FALSE

\* ok(data)
OkCall(data) ==
    /\ rs_pc = "start"
    /\ rs_result' = IF rs_branded THEN BrandedOk(data) ELSE Ok(data)
    /\ rs_built' = "ok"
    /\ rs_pc' = "built"
    /\ UNCHANGED <<rs_branded, rs_isSuccess, rs_isFailure>>
    /\ OnlyResult

\* failure(error, fieldErrors)
FailureCall(error, fieldErrors) ==
    /\ rs_pc = "start"
    /\ rs_result' = IF rs_branded THEN BrandedFailure(error, fieldErrors)
                    ELSE Failure(error, fieldErrors)
    /\ rs_built' = "failure"
    /\ rs_pc' = "built"
    /\ UNCHANGED <<rs_branded, rs_isSuccess, rs_isFailure>>
    /\ OnlyResult

\* A result that did not come from ok or failure.
GivenResult(r) ==
    /\ rs_pc = "start"
    /\ rs_result' = r
    /\ rs_built' = "given"
    /\ rs_pc' = "built"
    /\ UNCHANGED <<rs_branded, rs_isSuccess, rs_isFailure>>
    /\ OnlyResult

\* isSuccessResult(result) and isFailureResult(result)
GuardsCall ==
    /\ rs_pc = "built"
    /\ rs_isSuccess' = IF rs_branded THEN BrandedIsSuccessResult(rs_result)
                       ELSE IsSuccessResult(rs_result)
    /\ rs_isFailure' = IF rs_branded THEN BrandedIsFailureResult(rs_result)
                       ELSE IsFailureResult(rs_result)
    /\ rs_pc' = "checked"
    /\ UNCHANGED <<rs_branded, rs_built, rs_result>>
    /\ OnlyResult

NextResult ==
    \/ \E data \in OkData : OkCall(data)
    \/ \E error \in ErrorModels, fieldErrors \in FieldErrors :
          FailureCall(error, fieldErrors)
    \/ \E r \in GivenResults : GivenResult(r)
    \/ GuardsCall

\* =========================================================================
\* minBy / maxBy (src/unnamed/part_001, lines 216-263)
\*
\* The items are the numbers 0..MaxByItem, 0 being the falsy one. A result
\* carries the index it was taken from, which the code does not return, so
\* that equal items at different indices can be told apart.
\* =========================================================================

MaxByLen == 3
MaxByItem == 2

ByItems == 0..MaxByItem
ByArrays == UNION {[1..n -> ByItems] : n \in 0..MaxByLen}
BySelectors == [ByItems -> 0..MaxByItem]

ByUndefined == [defined |-> FALSE, index |-> 0, item |-> 0]
ByItem(array, i) == [defined |-> TRUE, index |-> i, item |-> array[i]]

\* if (item ...), if (!min)
Truthy(item) == item # 0

\* valueSelector(item) < valueSelector(min), valueSelector(item) >
\* valueSelector(max)
Less(a, b) == a < b
Greater(a, b) == a > b

\* The loop of minBy from index i on (indices from 1), min being the index
\* of the current minimum.
RECURSIVE MinByFrom(_, _, _, _)
MinByFrom(array, selector, min, i) ==
    IF i > Len(array) THEN ByItem(array, min)
    ELSE IF /\ Truthy(array[i])
            /\ Less(selector[array[i]], selector[array[min]])
         THEN MinByFrom(array, selector, i, i + 1)
         ELSE MinByFrom(array, selector, min, i + 1)

MinBy(array, selector) ==
    IF Len(array) = 0 THEN ByUndefined
    ELSE IF ~Truthy(array[1]) THEN ByUndefined
    ELSE MinByFrom(array, selector, 1, 2)

RECURSIVE MaxByFrom(_, _, _, _)
MaxByFrom(array, selector, max, i) ==
    IF i > Len(array) THEN ByItem(array, max)
    ELSE IF /\ Truthy(array[i])
            /\ Greater(selector[array[i]], selector[array[max]])
         THEN MaxByFrom(array, selector, i, i + 1)
         ELSE MaxByFrom(array, selector, max, i + 1)

MaxBy(array, selector) ==
    IF Len(array) = 0 THEN ByUndefined
    ELSE IF ~Truthy(array[1]) THEN ByUndefined
    ELSE MaxByFrom(array, selector, 1, 2)

InitBy ==
    /\ mb_array \in ByArrays
    /\ mb_selector \in BySelectors
    /\ mb_pc = "call"
    /\ mb_result = ByUndefined

MinByCall ==
    /\ mb_pc = "call"
    /\ mb_result' = MinBy(mb_array, mb_selector)
    /\ mb_pc' = "min"
    /\ UNCHANGED <<mb_array, mb_selector>>
    /\ OnlyBy

MaxByCall ==
    /\ mb_pc = "call"
    /\ mb_result' = MaxBy(mb_array, mb_selector)
    /\ mb_pc' = "max"
    /\ UNCHANGED <<mb_array, mb_selector>>
    /\ OnlyBy

NextBy ==
    \/ MinByCall
    \/ MaxByCall

\* =========================================================================
\* flattenObject (src/helpers/object.helper.ts, lines 174-210)
\*
\* The arguments are the records deepMerge is checked on: numbers, arrays
\* and records nested one level deep. Dates and regular expressions are not
\* among the values.
\* =========================================================================

\* prefix ? `${prefix}.${key}` : key
NewKey(prefix, key) == IF prefix = "" THEN key ELSE prefix \o "." \o key

\* value && typeof value === "object" && !Array.isArray(value) && ...
FlattensInto(value) ==
    value.kind # "null" /\ TypeofObject(value) /\ value.kind # "array"

\* Object.assign(target, source): the source's keys win
ObjectAssign(target, source) == source @@ target

\* The loop over the keys not yet visited. Own keys without a dot give
\* distinct new keys, so the order of the visit does not show in the result.
RECURSIVE FlattenObject(_, _)
RECURSIVE FlattenKeys(_, _, _, _)
FlattenKeys(obj, prefix, keys, result) ==
    IF keys = {} THEN result
    ELSE LET key == CHOOSE k \in keys : TRUE
             value == obj.val[key]
             newKey == NewKey(prefix, key)
         IN FlattenKeys(obj, prefix, keys \ {key},
                IF FlattensInto(value)
                THEN ObjectAssign(result, FlattenObject(value, newKey))
                ELSE ObjectAssign(result, newKey :> value))

FlattenObject(obj, prefix) == FlattenKeys(obj, prefix, OwnKeys(obj), <<>>)

InitFlatten ==
    /\ fl_obj \in OuterRecords
    /\ fl_pc = "call"
    /\ fl_result = <<>>

\* flattenObject(obj)
FlattenCall ==
    /\ fl_pc = "call"
    /\ fl_result' = FlattenObject(fl_obj, "")
    /\ fl_pc' = "flattened"
    /\ UNCHANGED fl_obj
    /\ OnlyFlatten

NextFlatten == FlattenCall

\* =========================================================================
\* getErrorCodeTitle (src/unnamed/part_003, lines 149-161)
\*
\* Strings are sequences of characters over a lower-case letter, an
\* upper-case letter, the underscore and the dot.
\* =========================================================================

MaxCodeLen == 5

CodeChars == {"a", "B", "_", "."}
Codes == UNION {[1..n -> CodeChars] : n \in 0..MaxCodeLen}

ToUpperCase(c) == CASE c = "a" -> "A" [] c = "b" -> "B" [] OTHER -> c
ToLowerCase(c) == CASE c = "A" -> "a" [] c = "B" -> "b" [] OTHER -> c

\* part.charAt(0).toUpperCase() + part.slice(1).toLowerCase()
Capitalize(part) ==
    [j \in DOMAIN part |->
        IF j = 1 THEN ToUpperCase(part[j]) ELSE ToLowerCase(part[j])]

\* parts.join(separator)
RECURSIVE Join(_, _)
Join(parts, separator) ==
    IF parts = <<>> THEN <<>>
    ELSE IF Len(parts) = 1 THEN parts[1]
    ELSE parts[1] \o separator \o Join(Tail(parts), separator)

\* code.split(".").slice(1).map(...).join(" ")
GetErrorCodeTitle(code) ==
    LET parts == Tail(SplitDot(code))
    IN Join([j \in DOMAIN parts |-> Capitalize(parts[j])], <<" ">>)

InitTitle ==
    /\ ct_code \in Codes
    /\ ct_pc = "call"
    /\ ct_title = <<>>

\* getErrorCodeTitle(code)
TitleCall ==
    /\ ct_pc = "call"
    /\ ct_title' = GetErrorCodeTitle(ct_code)
    /\ ct_pc' = "titled"
    /\ UNCHANGED ct_code
    /\ OnlyTitle

NextTitle == TitleCall

\* =========================================================================
\* Specifications: one per helper; the other helpers stay parked.
\* =========================================================================
ParkedPL ==
    /\ pl_tasks = <<>>
    /\ pl_concurrency = 0
    /\ pl_i = 1
    /\ pl_results = <<>>
    /\ pl_executing = <<>>
    /\ pl_task = <<>>
    /\ pl_reason = <<>>
    /\ pl_value = <<>>
    /\ pl_pc = "parked"
    /\ pl_await = Pending
    /\ pl_outcome = Pending
    /\ pl_rejections = <<>>

ParkedRetry ==
    /\ rt_maxRetries = 0
    /\ rt_initialDelay = 0
    /\ rt_maxDelay = 0
    /\ rt_backoffMultiplier = 0
    /\ rt_shouldRetry = {}
    /\ rt_onRetry = FALSE
    /\ rt_attempt = 0
    /\ rt_delay = 0
    /\ rt_lastError = NoError
    /\ rt_pc = "parked"
    /\ rt_outcome = Pending
    /\ rt_log = <<>>

ParkedTimeout ==
    /\ to_promise = Pending
    /\ to_ms = 0
    /\ to_errorMessage = Undefined
    /\ to_timeoutId = 0
    /\ to_timer = "none"
    /\ to_race = Pending
    /\ to_pc = "parked"
    /\ to_outcome = Pending
    /\ to_first = "none"
    /\ to_settled = 0

ParkedDebounce ==
    /\ db_sync = FALSE
    /\ db_ms = 1
    /\ db_now = 0
    /\ db_timeoutId = 0
    /\ db_calls = <<>>

ParkedThrottle ==
    /\ th_ms = 1
    /\ th_now = 0
    /\ th_isThrottled = FALSE
    /\ th_lastResult = UndefinedResult
    /\ th_calls = <<>>

ParkedAsyncMap ==
    /\ am_filter = FALSE
    /\ am_array = <<>>
    /\ am_i = 0
    /\ am_pc = "parked"
    /\ am_results = <<>>
    /\ am_outcome = Pending
    /\ am_log = <<>>

ParkedBatch ==
    /\ be_tasks = <<>>
    /\ be_chunkSize = 1
    /\ be_i = 0
    /\ be_chunk = <<>>
    /\ be_all = Pending
    /\ be_pc = "parked"
    /\ be_results = <<>>
    /\ be_outcome = Pending

ParkedWaitFor ==
    /\ wf_interval = 1
    /\ wf_timeoutMs = 0
    /\ wf_onFinish = FALSE
    /\ wf_onTimeout = FALSE
    /\ wf_now = 0
    /\ wf_startTime = 0
    /\ wf_sleepStart = 0
    /\ wf_pc = "parked"
    /\ wf_outcome = Pending
    /\ wf_log = <<>>

ParkedMemo ==
    /\ mz_ttl = NoTtl
    /\ mz_now = 0
    /\ mz_cache = [k \in MemoKeys |-> NoEntry]
    /\ mz_calls = <<>>
    /\ mz_resolved = <<>>

ParkedTruncate ==
    /\ tr_str = <<>>
    /\ tr_maxLength = 0
    /\ tr_ellipsis = DefaultEllipsis
    /\ tr_pc = "parked"
    /\ tr_result = <<>>

ParkedDeepMerge ==
    /\ dm_target = Obj(<<>>)
    /\ dm_source = Obj(<<>>)
    /\ dm_pc = "parked"
    /\ dm_result = Obj(<<>>)

ParkedPath ==
    /\ pa_obj = EmptyRecord
    /\ pa_path = <<>>
    /\ pa_default = Undef
    /\ pa_value = Undef
    /\ pa_pc = "parked"
    /\ pa_threw = FALSE
    /\ pa_after = EmptyRecord
    /\ pa_got = Undef
    /\ pa_has = FALSE

ParkedResult ==
    /\ rs_branded = FALSE
    /\ rs_built = "given"
    /\ rs_result = EmptyRecord
    /\ rs_pc = "parked"
    /\ rs_isSuccess = FALSE
    /\ rs_isFailure = FALSE

ParkedBy ==
    /\ mb_array = <<>>
    /\ mb_selector = [x \in ByItems |-> 0]
    /\ mb_pc = "parked"
    /\ mb_result = ByUndefined

ParkedFlatten ==
    /\ fl_obj = EmptyRecord
    /\ fl_pc = "parked"
    /\ fl_result = <<>>

ParkedTitle ==
    /\ ct_code = <<>>
    /\ ct_pc = "parked"
    /\ ct_title = <<>>

InitParallelLimit ==
    /\ InitPL
    /\ ParkedRetry
    /\ ParkedTimeout
    /\ ParkedDebounce
    /\ ParkedThrottle
    /\ ParkedAsyncMap
    /\ ParkedBatch
    /\ ParkedWaitFor
    /\ ParkedMemo
    /\ ParkedTruncate
    /\ ParkedDeepMerge
    /\ ParkedPath
    /\ ParkedResult
    /\ ParkedBy
    /\ ParkedFlatten
    /\ ParkedTitle
SpecParallelLimit == InitParallelLimit /\ [][NextPL]_vars

\* Every started task eventually settles and every continuation eventually runs.
SpecParallelLimitFair == SpecParallelLimit /\ WF_vars(NextPL)

InitRetryOnly ==
    /\ InitRetry
    /\ ParkedPL
    /\ ParkedTimeout
    /\ ParkedDebounce
    /\ ParkedThrottle
    /\ ParkedAsyncMap
    /\ ParkedBatch
    /\ ParkedWaitFor
    /\ ParkedMemo
    /\ ParkedTruncate
    /\ ParkedDeepMerge
    /\ ParkedPath
    /\ ParkedResult
    /\ ParkedBy
    /\ ParkedFlatten
    /\ ParkedTitle
SpecRetry == InitRetryOnly /\ [][NextRetry]_vars

InitTimeoutOnly ==
    /\ InitTimeout
    /\ ParkedPL
    /\ ParkedRetry
    /\ ParkedDebounce
    /\ ParkedThrottle
    /\ ParkedAsyncMap
    /\ ParkedBatch
    /\ ParkedWaitFor
    /\ ParkedMemo
    /\ ParkedTruncate
    /\ ParkedDeepMerge
    /\ ParkedPath
    /\ ParkedResult
    /\ ParkedBy
    /\ ParkedFlatten
    /\ ParkedTitle
SpecTimeout == InitTimeoutOnly /\ [][NextTimeout]_vars

InitDebounceOnly ==
    /\ InitDebounce
    /\ ParkedPL
    /\ ParkedRetry
    /\ ParkedTimeout
    /\ ParkedThrottle
    /\ ParkedAsyncMap
    /\ ParkedBatch
    /\ ParkedWaitFor
    /\ ParkedMemo
    /\ ParkedTruncate
    /\ ParkedDeepMerge
    /\ ParkedPath
    /\ ParkedResult
    /\ ParkedBy
    /\ ParkedFlatten
    /\ ParkedTitle
SpecDebounce == InitDebounceOnly /\ [][NextDebounce]_vars

InitThrottleOnly ==
    /\ InitThrottle
    /\ ParkedPL
    /\ ParkedRetry
    /\ ParkedTimeout
    /\ ParkedDebounce
    /\ ParkedAsyncMap
    /\ ParkedBatch
    /\ ParkedWaitFor
    /\ ParkedMemo
    /\ ParkedTruncate
    /\ ParkedDeepMerge
    /\ ParkedPath
    /\ ParkedResult
    /\ ParkedBy
    /\ ParkedFlatten
    /\ ParkedTitle
SpecThrottle == InitThrottleOnly /\ [][NextThrottle]_vars

InitAsyncMapOnly ==
    /\ InitAsyncMap
    /\ ParkedPL
    /\ ParkedRetry
    /\ ParkedTimeout
    /\ ParkedDebounce
    /\ ParkedThrottle
    /\ ParkedBatch
    /\ ParkedWaitFor
    /\ ParkedMemo
    /\ ParkedTruncate
    /\ ParkedDeepMerge
    /\ ParkedPath
    /\ ParkedResult
    /\ ParkedBy
    /\ ParkedFlatten
    /\ ParkedTitle
SpecAsyncMap == InitAsyncMapOnly /\ [][NextAsyncMap]_vars

InitBatchOnly ==
    /\ InitBatch
    /\ ParkedPL
    /\ ParkedRetry
    /\ ParkedTimeout
    /\ ParkedDebounce
    /\ ParkedThrottle
    /\ ParkedAsyncMap
    /\ ParkedWaitFor
    /\ ParkedMemo
    /\ ParkedTruncate
    /\ ParkedDeepMerge
    /\ ParkedPath
    /\ ParkedResult
    /\ ParkedBy
    /\ ParkedFlatten
    /\ ParkedTitle
SpecBatch == InitBatchOnly /\ [][NextBatch]_vars

InitWaitForOnly ==
    /\ InitWaitFor
    /\ ParkedPL
    /\ ParkedRetry
    /\ ParkedTimeout
    /\ ParkedDebounce
    /\ ParkedThrottle
    /\ ParkedAsyncMap
    /\ ParkedBatch
    /\ ParkedMemo
    /\ ParkedTruncate
    /\ ParkedDeepMerge
    /\ ParkedPath
    /\ ParkedResult
    /\ ParkedBy
    /\ ParkedFlatten
    /\ ParkedTitle
SpecWaitFor == InitWaitForOnly /\ [][NextWaitFor]_vars

InitMemoOnly ==
    /\ InitMemo
    /\ ParkedPL
    /\ ParkedRetry
    /\ ParkedTimeout
    /\ ParkedDebounce
    /\ ParkedThrottle
    /\ ParkedAsyncMap
    /\ ParkedBatch
    /\ ParkedWaitFor
    /\ ParkedTruncate
    /\ ParkedDeepMerge
    /\ ParkedPath
    /\ ParkedResult
    /\ ParkedBy
    /\ ParkedFlatten
    /\ ParkedTitle
SpecMemo == InitMemoOnly /\ [][NextMemo]_vars

InitTruncateOnly ==
    /\ InitTruncate
    /\ ParkedPL
    /\ ParkedRetry
    /\ ParkedTimeout
    /\ ParkedDebounce
    /\ ParkedThrottle
    /\ ParkedAsyncMap
    /\ ParkedBatch
    /\ ParkedWaitFor
    /\ ParkedMemo
    /\ ParkedDeepMerge
    /\ ParkedPath
    /\ ParkedResult
    /\ ParkedBy
    /\ ParkedFlatten
    /\ ParkedTitle
SpecTruncate == InitTruncateOnly /\ [][NextTruncate]_vars

InitDeepMergeOnly ==
    /\ InitDeepMerge
    /\ ParkedPL
    /\ ParkedRetry
    /\ ParkedTimeout
    /\ ParkedDebounce
    /\ ParkedThrottle
    /\ ParkedAsyncMap
    /\ ParkedBatch
    /\ ParkedWaitFor
    /\ ParkedMemo
    /\ ParkedTruncate
    /\ ParkedPath
    /\ ParkedResult
    /\ ParkedBy
    /\ ParkedFlatten
    /\ ParkedTitle
SpecDeepMerge == InitDeepMergeOnly /\ [][NextDeepMerge]_vars

InitPathOnly ==
    /\ InitPath
    /\ ParkedPL
    /\ ParkedRetry
    /\ ParkedTimeout
    /\ ParkedDebounce
    /\ ParkedThrottle
    /\ ParkedAsyncMap
    /\ ParkedBatch
    /\ ParkedWaitFor
    /\ ParkedMemo
    /\ ParkedTruncate
    /\ ParkedDeepMerge
    /\ ParkedResult
    /\ ParkedBy
    /\ ParkedFlatten
    /\ ParkedTitle
SpecPath == InitPathOnly /\ [][NextPath]_vars

InitResultOnly ==
    /\ InitResult
    /\ ParkedPL
    /\ ParkedRetry
    /\ ParkedTimeout
    /\ ParkedDebounce
    /\ ParkedThrottle
    /\ ParkedAsyncMap
    /\ ParkedBatch
    /\ ParkedWaitFor
    /\ ParkedMemo
    /\ ParkedTruncate
    /\ ParkedDeepMerge
    /\ ParkedPath
    /\ ParkedBy
    /\ ParkedFlatten
    /\ ParkedTitle
SpecResult == InitResultOnly /\ [][NextResult]_vars

InitByOnly ==
    /\ InitBy
    /\ ParkedPL
    /\ ParkedRetry
    /\ ParkedTimeout
    /\ ParkedDebounce
    /\ ParkedThrottle
    /\ ParkedAsyncMap
    /\ ParkedBatch
    /\ ParkedWaitFor
    /\ ParkedMemo
    /\ ParkedTruncate
    /\ ParkedDeepMerge
    /\ ParkedPath
    /\ ParkedResult
    /\ ParkedFlatten
    /\ ParkedTitle
SpecBy == InitByOnly /\ [][NextBy]_vars

InitFlattenOnly ==
    /\ InitFlatten
    /\ ParkedPL
    /\ ParkedRetry
    /\ ParkedTimeout
    /\ ParkedDebounce
    /\ ParkedThrottle
    /\ ParkedAsyncMap
    /\ ParkedBatch
    /\ ParkedWaitFor
    /\ ParkedMemo
    /\ ParkedTruncate
    /\ ParkedDeepMerge
    /\ ParkedPath
    /\ ParkedResult
    /\ ParkedBy
    /\ ParkedTitle
SpecFlatten == InitFlattenOnly /\ [][NextFlatten]_vars

InitTitleOnly ==
    /\ InitTitle
    /\ ParkedPL
    /\ ParkedRetry
    /\ ParkedTimeout
    /\ ParkedDebounce
    /\ ParkedThrottle
    /\ ParkedAsyncMap
    /\ ParkedBatch
    /\ ParkedWaitFor
    /\ ParkedMemo
    /\ ParkedTruncate
    /\ ParkedDeepMerge
    /\ ParkedPath
    /\ ParkedResult
    /\ ParkedBy
    /\ ParkedFlatten
SpecTitle == InitTitleOnly /\ [][NextTitle]_vars

\* =========================================================================
\* Claims about parallelLimit (checked under SpecParallelLimit)
\* =========================================================================
PLPresent == {k \in PLIndices : pl_tasks[k]}
PLInFlight == {k \in PLIndices : pl_task[k] = "pending"}
PLStarted == {k \in PLIndices : pl_task[k] # "unstarted"}
PLUnstarted == PLPresent \ PLStarted

\* C1: for a positive concurrency, the tasks started and not yet settled are
\* never more than `concurrency`, in any state of any execution.
C1_AtMostConcurrencyInFlight ==
    pl_concurrency >= 1 => Cardinality(PLInFlight) <= pl_concurrency

\* C1 witness: the limit (2 or more) is reached after a task has already
\* settled and while tasks still wait for admission.
C1_Witness ==
    /\ pl_concurrency >= 2
    /\ Cardinality(PLInFlight) = pl_concurrency
    /\ \E k \in PLIndices : pl_task[k] = "resolved"
    /\ PLUnstarted # {}

\* C2: when parallelLimit resolves, the array it resolves with has the length
\* of the task list and its element i is the value task i resolved with.
C2_ResultsInIndexOrder ==
    pl_outcome.state = "fulfilled" =>
        /\ Len(pl_outcome.value) = Len(pl_tasks)
        /\ \A k \in PLPresent :
              /\ pl_task[k] = "resolved"
              /\ pl_outcome.value[k] = pl_value[k]

\* C2 witness: a call with three tasks that resolved with different values,
\* a later task having resolved first, has returned.
C2_Witness ==
    /\ pl_outcome.state = "fulfilled"
    /\ Cardinality(PLPresent) >= 3
    /\ pl_concurrency = 2
    /\ \E j, k \in PLPresent : pl_outcome.value[j] # pl_outcome.value[k]

\* The call is over and nothing it started is still running.
PLQuiescent == pl_pc \in {"returned", "threw"} /\ PLInFlight = {}

\* C3 (as claimed): when every started task has settled, by resolving or by
\* rejecting, and the call is over, every task of the list has been started.
C3_EveryTaskStarted == PLQuiescent => PLUnstarted = {}

\* C3 (what the code does guarantee, under SpecParallelLimitFair): every task
\* of the list is eventually started unless a task rejects first.
C3_StartedUnlessRejected == <>(PLUnstarted = {} \/ pl_rejections # <<>>)

\* The reason of the first task rejection to occur.
PLFirstRejection == pl_reason[Head(pl_rejections)]

\* C4 (as claimed): if any task rejected, parallelLimit does not resolve, and
\* when it rejects its reason is that of the first task rejection to occur.
C4_RejectsWithFirstRejection ==
    pl_rejections # <<>> =>
        /\ pl_outcome.state # "fulfilled"
        /\ pl_pc = "threw" => pl_outcome = Rejected(PLFirstRejection)

\* The first task of the list, from index i on, that the loop will start.
PLNextFrom(i) ==
    LET rest == {k \in PLPresent : k >= i}
    IN  IF rest = {} THEN 0 ELSE CHOOSE k \in rest : \A j \in rest : k <= j

\* C5: tasks are admitted in index order; while the loop waits for a slot,
\* the resolution of ANY task in flight fulfils the wait, and the loop's next
\* step starts the next unstarted task.
C5_FirstSettledFreesSlot ==
    /\ [](\A j, k \in PLPresent : (j < k /\ k \in PLStarted) => j \in PLStarted)
    /\ [][\A k \in PLIndices :
            (pl_pc = "race" /\ pl_await = Pending
                /\ pl_task[k] = "pending" /\ pl_task'[k] = "resolved")
            => pl_await' = Fulfilled]_vars
    /\ [][(pl_pc = "race" /\ pl_await = Fulfilled /\ pl_i' # pl_i
                /\ PLNextFrom(pl_i) # 0)
            => pl_task'[PLNextFrom(pl_i)] = "pending"]_vars

\* C5 witness: with concurrency 2, task 3 has been admitted because task 2
\* resolved, while task 1, started before it, is still in flight.
C5_Witness ==
    /\ pl_concurrency = 2
    /\ Len(pl_tasks) >= 3
    /\ \A k \in 1..3 : pl_tasks[k]
    /\ pl_task[1] = "pending"
    /\ pl_task[2] = "resolved"
    /\ pl_task[3] = "pending"

\* =========================================================================
\* Claims about retry (checked under SpecRetry)
\* =========================================================================
RtOfKind(kind) == SelectSeq(rt_log, LAMBDA x : x.ev = kind)
RtInvocations == Len(RtOfKind("invoke"))
RtFails == RtOfKind("fail")
RtOnRetries == RtOfKind("onRetry")
RtSleeps == RtOfKind("sleep")

\* The place in the log of the j-th event of a kind.
RtPosition(kind, j) ==
    CHOOSE p \in 1..Len(rt_log) :
        /\ rt_log[p].ev = kind
        /\ Cardinality({q \in 1..p : rt_log[q].ev = kind}) = j

\* C6: the task is invoked at most maxRetries+1 times and never after it
\* resolved; when it fails k times and then succeeds, retry resolves with that
\* value after exactly k+1 invocations, and onRetry (when given) has been called
\* exactly k times, the j-th call with failure j's error and attempt number j,
\* after invocation j and before invocation j+1.
C6_RetryUntilSuccess ==
    /\ RtInvocations <= rt_maxRetries + 1
    /\ \A p \in 1..Len(rt_log) : rt_log[p].ev = "ok" => p = Len(rt_log)
    /\ rt_outcome.state = "fulfilled" =>
         LET k == Len(RtFails)
         IN  /\ rt_log[Len(rt_log)] = EvOk(rt_outcome.value)
             /\ RtInvocations = k + 1
             /\ rt_onRetry =>
                  /\ Len(RtOnRetries) = k
                  /\ \A j \in 1..k :
                       /\ RtOnRetries[j] = EvOnRetry(RtFails[j].error, j)
                       /\ RtPosition("invoke", j) < RtPosition("onRetry", j)
                       /\ RtPosition("onRetry", j) < RtPosition("invoke", j + 1)

\* C6 witness: the task failed twice and then succeeded, with onRetry given.
C6_Witness ==
    /\ rt_outcome.state = "fulfilled"
    /\ Len(RtFails) = 2
    /\ rt_onRetry

\* The step is a failure of the task, and e is its error.
RtFailStep(e) ==
    /\ Len(rt_log') > Len(rt_log)
    /\ rt_log'[Len(rt_log) + 1] = EvFail(e)

\* C7: a failure with an error shouldRetry refuses, or the failure of attempt
\* maxRetries+1, rejects retry with that error in the same step, with no
\* onRetry call and no sleep; afterwards retry does nothing more.
C7_GivesUpImmediately ==
    /\ [](rt_outcome.state = "rejected" /\ RtInvocations > 0 =>
            /\ rt_log[Len(rt_log)] = EvFail(rt_outcome.reason)
            /\ \/ rt_outcome.reason \notin rt_shouldRetry
               \/ RtInvocations = rt_maxRetries + 1)
    /\ [][\A e \in Errors :
            (RtFailStep(e) /\ (e \notin rt_shouldRetry
                                \/ RtInvocations = rt_maxRetries + 1))
            => /\ rt_outcome' = Rejected(e)
               /\ rt_log' = Append(rt_log, EvFail(e))]_vars
    /\ [][rt_outcome # Pending => rt_log' = rt_log]_vars

\* C7 witness: the second attempt failed with an error shouldRetry refuses
\* while attempts were left, and retry rejected with it.
C7_Witness ==
    /\ rt_outcome.state = "rejected"
    /\ RtInvocations = 2
    /\ rt_maxRetries >= 2
    /\ rt_outcome.reason \notin rt_shouldRetry
    /\ rt_onRetry

\* C7 witness of the other case: the budget is exhausted by retryable errors.
C7_WitnessExhausted ==
    /\ rt_outcome.state = "rejected"
    /\ rt_maxRetries >= 1
    /\ RtInvocations = rt_maxRetries + 1
    /\ rt_outcome.reason \in rt_shouldRetry

\* C8: the wait after failed attempt k (from 0) is exactly
\* min(initialDelay * backoffMultiplier^k, maxDelay), k is below maxRetries,
\* no wait exceeds maxDelay, and every attempt after the first follows a wait.
C8_BackoffDelays ==
    /\ \A j \in 1..Len(RtSleeps) :
         /\ RtSleeps[j].ms =
              Min(rt_initialDelay * Pow(rt_backoffMultiplier, j - 1), rt_maxDelay)
         /\ RtSleeps[j].ms <= rt_maxDelay
         /\ j - 1 < rt_maxRetries
    /\ rt_pc = "fn" => Len(RtSleeps) = RtInvocations - 1
    /\ rt_pc = "sleep" => Len(RtSleeps) = RtInvocations

\* C8 witness: a first wait below maxDelay and a second one capped by it.
C8_Witness ==
    /\ Len(RtSleeps) = 2
    /\ RtSleeps[1].ms < rt_maxDelay
    /\ rt_initialDelay * rt_backoffMultiplier > rt_maxDelay
    /\ RtSleeps[2].ms = rt_maxDelay

\* =========================================================================
\* Claims about timeout (checked under SpecTimeout)
\* =========================================================================
\* C9: the returned promise settles once and never changes; it settles with
\* the outcome of `promise` when that settled before the timer fired, and
\* otherwise with an Error whose message is the custom message or
\* 'Operation timed out after {ms}ms'.  The task is left alone: it can still
\* settle later, which changes nothing.
C9_RaceOutcome ==
    /\ [](to_settled = IF to_outcome = Pending THEN 0 ELSE 1)
    /\ []((to_outcome # Pending /\ to_first = "promise") => to_outcome = to_promise)
    /\ []((to_outcome # Pending /\ to_first # "promise") =>
            /\ to_first = "timer"
            /\ to_outcome.state = "rejected"
            /\ to_outcome.reason.error = "Error"
            /\ to_outcome.reason.message \in
                 {to_errorMessage.text, DefaultMessage(to_ms)}
            /\ to_errorMessage = Text("too slow") =>
                 to_outcome.reason.message = "too slow"
            /\ (to_errorMessage = Undefined /\ to_ms = 2) =>
                 to_outcome.reason.message = "Operation timed out after 2ms")
    /\ [][to_outcome # Pending => to_outcome' = to_outcome]_vars
    /\ [][to_promise # Pending => to_promise' = to_promise]_vars

\* C9 witness: the timer fired first, timeout rejected with the default
\* message, and the abandoned task resolved afterwards.
C9_Witness ==
    /\ to_first = "timer"
    /\ to_outcome.state = "rejected"
    /\ to_errorMessage = Undefined
    /\ to_promise.state = "fulfilled"

\* C10: once the returned promise has settled, the timer of the call is no
\* longer pending: it fired or it was cleared.
C10_TimerNeverLeftPending ==
    to_outcome # Pending => to_timer \in {"fired", "cleared"}

\* C10 witness: the task won the race and the timer was cleared.
C10_Witness ==
    /\ to_outcome.state = "fulfilled"
    /\ to_timer = "cleared"

\* =========================================================================
\* Claims about debounce and debounceSync (checked under SpecDebounce)
\* =========================================================================
DbCalls == DOMAIN db_calls
DbInvoked(c) == db_calls[c].invoked > 0
DbQuiet == \A c \in DbCalls : db_calls[c].timer # "pending"

\* C11: fn is invoked only for a call that no later call followed before the
\* invocation, no earlier than ms after that call, once, and with that call's
\* arguments; of two calls less than ms apart the earlier one is never
\* invoked, and once no timer is pending the last call is the one invoked.
C11_TrailingInvocationOnly ==
    /\ \A c \in DbCalls :
          /\ db_calls[c].invoked <= 1
          /\ DbInvoked(c) =>
                /\ db_calls[c].invokedAt - db_calls[c].at >= db_ms
                /\ db_calls[c].invokedArg = db_calls[c].args
                /\ ~db_calls[c].superseded
                /\ \A d \in DbCalls :
                      d > c => db_calls[d].at >= db_calls[c].invokedAt
    /\ \A c \in DbCalls :
          (c + 1 \in DbCalls /\ db_calls[c + 1].at - db_calls[c].at < db_ms)
             => ~DbInvoked(c)
    /\ (DbQuiet /\ db_calls # <<>>) => DbInvoked(Len(db_calls))

\* A burst of three calls, each less than ms after the one before, is over
\* and fn ran once, for the last of them.
C11_Witness ==
    /\ Len(db_calls) = 3
    /\ \A c \in 1..2 : db_calls[c + 1].at - db_calls[c].at < db_ms
    /\ db_calls[2].at > db_calls[1].at
    /\ DbQuiet
    /\ DbInvoked(3)
    /\ db_calls[3].args # db_calls[1].args

\* C12: (async variant) the promise of a call whose timer a later call
\* cancelled is pending in every state; a settled promise belongs to a call
\* whose timer fired and carries the outcome of fn for that call; and once
\* fn has settled for a call that was not cancelled, so has its promise.
C12_SettlesIffNotSuperseded ==
    ~db_sync =>
        \A c \in DbCalls :
            /\ db_calls[c].superseded =>
                  /\ db_calls[c].promise = Pending
                  /\ db_calls[c].timer = "cleared"
            /\ db_calls[c].promise # Pending =>
                  /\ db_calls[c].timer = "fired"
                  /\ db_calls[c].promise.state = db_calls[c].fn
            /\ (db_calls[c].timer = "fired" /\ db_calls[c].fn # "running")
                  => /\ db_calls[c].promise # Pending
                     /\ db_calls[c].promise.state = db_calls[c].fn

\* Two superseded calls stay pending while the third call's promise has
\* been rejected with fn's error.
C12_Witness ==
    /\ ~db_sync
    /\ Len(db_calls) = 3
    /\ db_calls[1].superseded /\ db_calls[2].superseded
    /\ db_calls[1].promise = Pending /\ db_calls[2].promise = Pending
    /\ db_calls[3].promise \in {Rejected(e) : e \in Errors}

\* =========================================================================
\* Claims about throttle (checked under SpecThrottle)
\* =========================================================================
ThCalls == DOMAIN th_calls
ThExecuted == {c \in ThCalls : th_calls[c].executed}
ThSuppressed == ThCalls \ ThExecuted
ThLast(S) == CHOOSE c \in S : \A d \in S : d <= c

\* The executions before call c, and those of them that had resolved by the
\* time call c was made.
ThExecutedBefore(c) == {e \in ThExecuted : e < c}
ThResolvedBefore(c) ==
    {e \in ThExecutedBefore(c) :
        th_calls[e].fn = "fulfilled" /\ th_calls[e].settledAfter < c}

ThFirstCallExecutes == th_calls # <<>> => th_calls[1].executed
ThSpacing ==
    \A c, d \in ThExecuted : c < d => th_calls[d].at - th_calls[c].at >= th_ms

\* C13 as stated: the first call executes fn; a suppressed call resolves with
\* the result of the most recent executed call; executions are at least ms
\* apart.
C13_SuppressedGetsLatestExecutedResult ==
    /\ ThFirstCallExecutes
    /\ \A c \in ThSuppressed :
          LET e == ThLast(ThExecutedBefore(c))
          IN th_calls[e].fn = "fulfilled"
                => th_calls[c].promise = ResolvedWith(th_calls[e].value)
    /\ ThSpacing

\* C13 amended: the first call executes fn; a call made while the throttle
\* is active does not execute fn and resolves at once with lastResult, which
\* is the value of the most recent execution that had already resolved when
\* the call was made, or undefined when there is none (an execution still in
\* flight or rejected contributes nothing); executions are at least ms apart.
C13_SuppressedGetsLastResolvedResult ==
    /\ ThFirstCallExecutes
    /\ \A c \in ThSuppressed :
          /\ ThExecutedBefore(c) # {}
          /\ th_calls[c].fn = "none"
          /\ th_calls[c].promise =
                ResolvedWith(IF ThResolvedBefore(c) = {}
                             THEN UndefinedResult
                             ELSE th_calls[ThLast(ThResolvedBefore(c))].value)
    /\ ThSpacing

\* A call suppressed while the first execution was still in flight got
\* undefined, and a call suppressed after it resolved got its value.
C13_Witness ==
    /\ Len(th_calls) = 3
    /\ th_calls[1].fn = "fulfilled"
    /\ th_calls[2].promise = ResolvedWith(UndefinedResult)
    /\ ~th_calls[3].executed
    /\ th_calls[3].promise = ResolvedWith(th_calls[1].value)

\* =========================================================================
\* Claims about asyncMap and asyncFilter (checked under SpecAsyncMap)
\* =========================================================================
AmEvents(kind) == {n \in DOMAIN am_log : am_log[n].kind = kind}
AmInFlight == Cardinality(AmEvents("invoke")) - Cardinality(AmEvents("settle"))
AmRejections == {n \in AmEvents("settle") : am_log[n].state = "rejected"}

\* C14: callbacks are invoked in increasing index order; every invocation
\* but the first directly follows the fulfilment of the one before, so at
\* most one is in flight; a rejection is the last event, and the returned
\* promise is then rejected with that reason.
C14_SequentialInIndexOrder ==
    /\ AmInFlight \in {0, 1}
    /\ AmInFlight = 1 <=> am_pc = "await"
    /\ \A m, n \in AmEvents("invoke") :
          m < n => am_log[m].index < am_log[n].index
    /\ \A n \in AmEvents("invoke") :
          n > 1 => /\ am_log[n - 1].kind = "settle"
                   /\ am_log[n - 1].state = "fulfilled"
                   /\ \E m \in AmEvents("invoke") :
                         m < n /\ am_log[m].index = am_log[n - 1].index
    /\ \A n \in AmEvents("settle") :
          n > 1 /\ am_log[n - 1] = AmInvoke(am_log[n].index,
                                            am_array[am_log[n].index + 1])
    /\ \A n \in AmRejections :
          /\ n = Len(am_log)
          /\ am_pc = "done"
          /\ am_outcome = Rejected(am_log[n].value)

\* Two callbacks ran one after the other and the second one rejected, with
\* an element left that was never passed to the callback.
C14_Witness ==
    /\ Cardinality(AmEvents("invoke")) = 2
    /\ AmRejections # {}
    /\ am_i + 1 < Len(am_array)
    /\ am_array[Len(am_array)] # UndefinedItem
    /\ am_outcome \in {Rejected(e) : e \in Errors}

\* =========================================================================
\* Claims about batchExecute (checked under SpecBatch)
\* =========================================================================
BeIndices == {k \in 0..MaxBatchTasks : k + 1 \in DOMAIN be_tasks}
BeStarted(k) == be_tasks[k + 1].state # "idle"
BeInFlight == {k \in BeIndices : be_tasks[k + 1] = Pending}
BeChunkOf(k) == k \div be_chunkSize

\* C15: with chunkSize >= 1, a task of a later chunk is started only when
\* every task of every earlier chunk has resolved; the tasks of one chunk
\* are started together; at most chunkSize tasks are in flight; and the
\* promise is fulfilled with the values of the tasks in task order.
C15_ChunkAfterChunk ==
    be_chunkSize >= 1 =>
        /\ \A j, m \in BeIndices :
              (BeChunkOf(m) < BeChunkOf(j) /\ BeStarted(j))
                 => be_tasks[m + 1].state = "fulfilled"
        /\ \A j, m \in BeIndices :
              BeChunkOf(j) = BeChunkOf(m) => (BeStarted(j) <=> BeStarted(m))
        /\ Cardinality(BeInFlight) <= be_chunkSize
        /\ be_outcome.state = "fulfilled" =>
              /\ Len(be_outcome.value) = Len(be_tasks)
              /\ \A k \in BeIndices :
                    be_tasks[k + 1] = ResolvedWith(be_outcome.value[k + 1])

\* Four tasks in chunks of two ran to the end with different values inside
\* each chunk.
C15_Witness ==
    /\ be_chunkSize = 2
    /\ Len(be_tasks) = 4
    /\ be_outcome.state = "fulfilled"
    /\ be_outcome.value[1] # be_outcome.value[2]
    /\ be_outcome.value[3] # be_outcome.value[4]

\* =========================================================================
\* Claims about waitFor (checked under SpecWaitFor)
\* =========================================================================
WfEvents(kind) == {n \in DOMAIN wf_log : wf_log[n].kind = kind}
WfPolls == WfEvents("poll")
WfResults == WfEvents("result")
WfNeverTrue == \A n \in WfResults : wf_log[n].result = "false"
WfElapsed(n) == wf_log[n].at - wf_startTime

\* C16: in a run in which every evaluation of the condition was false,
\* consecutive polls are at least interval ms apart; a poll whose result
\* arrives timeout ms or more after the call is the last one, and the wait
\* then ends at once, rejected with 'Condition not met within {timeout}ms'
\* after one onTimeout call (if given); the wait ends in no other way; and
\* the number of polls is bounded: the poll before the last one started
\* less than timeout ms after the call.
C16_PollsUntilDeadline ==
    WfNeverTrue =>
        /\ \A m, n \in WfPolls :
              m < n => wf_log[n].at - wf_log[m].at >= wf_interval
        /\ \A n \in WfResults :
              WfElapsed(n) >= wf_timeoutMs =>
                  /\ wf_pc = "done"
                  /\ \A m \in WfPolls : m < n
        /\ wf_pc = "done" =>
              /\ wf_outcome = Rejected(TimeoutMessage(wf_timeoutMs))
              /\ \E n \in WfResults : WfElapsed(n) >= wf_timeoutMs
              /\ Cardinality(WfEvents("onTimeout")) =
                    (IF wf_onTimeout THEN 1 ELSE 0)
        /\ wf_pc # "done" => WfEvents("onTimeout") = {}
        /\ WfEvents("onFinish") = {}
        /\ Cardinality(WfPolls) >= 2 =>
              (Cardinality(WfPolls) - 2) * wf_interval < wf_timeoutMs

\* Three polls, all false, ended in the timeout rejection with onTimeout
\* called.
C16_Witness ==
    /\ WfNeverTrue
    /\ Cardinality(WfPolls) = 3
    /\ wf_pc = "done"
    /\ wf_onTimeout
    /\ Cardinality(WfEvents("onTimeout")) = 1
    /\ wf_outcome = Rejected("Condition not met within 2ms")

\* =========================================================================
\* Claims about memoizeAsync (checked under SpecMemo)
\* =========================================================================
MzCalls == DOMAIN mz_calls
MzHit(c) == mz_calls[c].fn = "none"

\* C17: with a ttl set, a call that finds an entry stored at time t returns
\* the entry's value without invoking fn when made before t + ttl, and
\* deletes the entry and invokes fn when made at t + ttl or later.
C17_TtlExpiry ==
    mz_ttl.given =>
        \A c \in MzCalls :
            mz_calls[c].saw.present =>
                IF mz_calls[c].at < mz_calls[c].saw.timestamp + mz_ttl.ms
                THEN /\ MzHit(c)
                     /\ mz_calls[c].promise =
                           ResolvedWith(mz_calls[c].saw.value)
                ELSE /\ ~MzHit(c)
                     /\ mz_calls[c].evicted

\* What the code does: the same for every ttl other than 0, while with
\* ttl 0 (as with no ttl) an entry is returned however old it is.
C17_TtlExpiryUnlessZero ==
    \A c \in MzCalls :
        mz_calls[c].saw.present =>
            IF \/ ~mz_ttl.given
               \/ mz_ttl.ms = 0
               \/ mz_calls[c].at < mz_calls[c].saw.timestamp + mz_ttl.ms
            THEN /\ MzHit(c)
                 /\ mz_calls[c].promise = ResolvedWith(mz_calls[c].saw.value)
            ELSE /\ ~MzHit(c)
                 /\ mz_calls[c].evicted

\* The calls of one key, and what their history says the entry must be:
\* the value and time of the last resolution, unless a call issued after it
\* deleted the entry.
MzResolvedOf(k) ==
    {n \in DOMAIN mz_resolved : mz_calls[mz_resolved[n].call].key = k}
MzLastResolved(k) ==
    CHOOSE n \in MzResolvedOf(k) : \A m \in MzResolvedOf(k) : m <= n
MzEntryFromHistory(k) ==
    IF MzResolvedOf(k) = {} THEN NoEntry
    ELSE LET last == mz_resolved[MzLastResolved(k)]
         IN IF \E d \in MzCalls : /\ mz_calls[d].key = k
                                  /\ d > last.issued
                                  /\ mz_calls[d].evicted
            THEN NoEntry
            ELSE Entry(last.value, last.at)

\* Calls c < d of one key overlap when d was issued before c's fn settled.
MzRunningAt(c, d) ==
    /\ ~MzHit(c)
    /\ \/ mz_calls[c].fn = "running"
       \/ \E n \in DOMAIN mz_resolved :
             mz_resolved[n].call = c /\ mz_resolved[n].issued >= d
MzNoneResolvedBefore(k, d) ==
    \A n \in MzResolvedOf(k) : mz_resolved[n].issued >= d

\* C18: a call issued while another call of the same key is in flight, and
\* before any call of that key has resolved, invokes fn as well; the entry
\* of a key is the value of the call of that key that resolved last (unless
\* a later call deleted it as expired); and it is a function of the calls
\* of that key alone.
C18_NoDedupLastResolvedWins ==
    /\ \A c, d \in MzCalls :
          (/\ c < d
           /\ mz_calls[c].key = mz_calls[d].key
           /\ MzNoneResolvedBefore(mz_calls[d].key, d)
           /\ ~MzHit(c))
             => ~MzHit(d)
    /\ \A k \in MemoKeys : mz_cache[k] = MzEntryFromHistory(k)

\* Two overlapping calls of one key both invoked fn; the first issued
\* resolved last, with a different value, and that value is the entry.
C18_Witness ==
    /\ Len(mz_calls) = 2
    /\ mz_calls[1].key = mz_calls[2].key
    /\ ~MzHit(1) /\ ~MzHit(2)
    /\ Len(mz_resolved) = 2
    /\ mz_resolved[1].call = 2
    /\ mz_resolved[2].call = 1
    /\ mz_resolved[1].value # mz_resolved[2].value
    /\ mz_cache[mz_calls[1].key] = Entry(mz_resolved[2].value, mz_resolved[2].at)

\* =========================================================================
\* Claims about truncate (checked under SpecTruncate)
\* =========================================================================
TrReturnedDefault == tr_pc = "returned" /\ tr_ellipsis = DefaultEllipsis

\* C19: truncate(s, n) returns s unchanged when s.length <= n and a string
\* of length exactly n otherwise, for every n >= 0.
C19_TruncatedLengthIsMax ==
    TrReturnedDefault =>
        IF Len(tr_str) <= tr_maxLength
        THEN tr_result = tr_str
        ELSE Len(tr_result) = tr_maxLength

\* What the code does: the same from maxLength 3 (the length of the
\* ellipsis) on; below that the result is longer than maxLength.
C19_TruncatedLengthFromThree ==
    TrReturnedDefault =>
        IF Len(tr_str) <= tr_maxLength
        THEN tr_result = tr_str
        ELSE IF tr_maxLength >= Len(DefaultEllipsis)
             THEN /\ Len(tr_result) = tr_maxLength
                  /\ tr_result = SubSeq(tr_str, 1, tr_maxLength - Len(DefaultEllipsis))
                                    \o DefaultEllipsis
             ELSE Len(tr_result) > tr_maxLength

\* =========================================================================
\* Claims about deepMerge (checked under SpecDeepMerge)
\* =========================================================================
DmPlain(o, k) == k \in OwnKeys(o) /\ o.val[k].kind = "object"

\* C20: in the result a key only in target keeps its value; a key holding
\* a plain record in both holds the record with the keys of both, each
\* inner key with the source's value if the source has it and the target's
\* otherwise; a key whose source value is an array holds exactly the source
\* array; and the result has no other keys.
C20_DeepMergeOfPlainRecords ==
    dm_pc = "returned" =>
        /\ OwnKeys(dm_result) = OwnKeys(dm_target) \cup OwnKeys(dm_source)
        /\ \A k \in OwnKeys(dm_target) \ OwnKeys(dm_source) :
              dm_result.val[k] = dm_target.val[k]
        /\ \A k \in OwnKeys(dm_source) :
              dm_source.val[k].kind = "array"
                 => dm_result.val[k] = dm_source.val[k]
        /\ \A k \in OwnKeys(dm_source) :
              (DmPlain(dm_target, k) /\ DmPlain(dm_source, k)) =>
                 LET t == dm_target.val[k]
                     s == dm_source.val[k]
                     r == dm_result.val[k]
                 IN /\ r.kind = "object"
                    /\ OwnKeys(r) = OwnKeys(t) \cup OwnKeys(s)
                    /\ \A j \in OwnKeys(r) :
                          r.val[j] = IF j \in OwnKeys(s) THEN s.val[j]
                                                         ELSE t.val[j]

\* The documented example: {a:1,b:{c:2}} with {b:{d:3}} gave
\* {a:1,b:{c:2,d:3}}.
C20_Witness ==
    /\ dm_pc = "returned"
    /\ dm_target = Obj([k \in {"a", "b"} |->
                          IF k = "a" THEN Num(1)
                          ELSE Obj([j \in {"c"} |-> Num(2)])])
    /\ dm_source = Obj([k \in {"b"} |-> Obj([j \in {"d"} |-> Num(3)])])
    /\ dm_result = Obj([k \in {"a", "b"} |->
                          IF k = "a" THEN Num(1)
                          ELSE Obj([j \in {"c", "d"} |->
                                      IF j = "c" THEN Num(2) ELSE Num(3)])])

\* =========================================================================
\* Claims about getPath, hasPath and setPath (checked under SpecPath)
\* =========================================================================
PaKeys == SplitDot(pa_path)
SameValue(v, w) == v.kind = w.kind /\ v.val = w.val

\* The value n segments down obj, and whether each of those segments is a
\* key of the record reached before it.
RECURSIVE PaReach(_, _)
PaReach(obj, n) ==
    IF n = 0 THEN obj ELSE PaReach(obj, n - 1).val[PaKeys[n]]
RECURSIVE PaExists(_, _)
PaExists(obj, n) ==
    \/ n = 0
    \/ /\ PaExists(obj, n - 1)
       /\ PaReach(obj, n - 1).kind = "object"
       /\ PaKeys[n] \in DOMAIN PaReach(obj, n - 1).val
PaAllExist(obj) == PaExists(obj, Len(PaKeys))
PaTarget(obj) == PaReach(obj, Len(PaKeys))

\* C21 as stated: getPath returns the value reached when every segment
\* exists, and it returns d if and only if hasPath is false.
C21_DefaultIffNoPath ==
    pa_pc = "read" =>
        /\ pa_has = PaAllExist(pa_obj)
        /\ pa_has => SameValue(pa_got, PaTarget(pa_obj))
        /\ SameValue(pa_got, pa_default) <=> ~pa_has

\* C21 amended: hasPath is true exactly when every segment exists; getPath
\* returns the value reached when hasPath is true and d when it is false
\* (the value reached may itself be equal to d).
C21_DefaultWhenNoPath ==
    pa_pc = "read" =>
        /\ pa_has = PaAllExist(pa_obj)
        /\ pa_has => SameValue(pa_got, PaTarget(pa_obj))
        /\ ~pa_has => SameValue(pa_got, pa_default)

\* A two-segment path exists and holds a value equal to the default.
C21_Witness ==
    /\ pa_pc = "read"
    /\ Len(PaKeys) = 2
    /\ pa_has
    /\ SameValue(pa_got, pa_default)
    /\ SameValue(pa_got, Num(1))

\* The top-level keys off the path are as they were.
PaOthersUnchanged ==
    \A k \in DOMAIN pa_obj.val :
        k # PaKeys[1] =>
            /\ k \in DOMAIN pa_after.val
            /\ SameValue(pa_after.val[k], pa_obj.val[k])

PaNoEmptySegment == \A n \in DOMAIN PaKeys : PaKeys[n] # <<>>

\* C29: for a path without empty segments, setPath returns without
\* throwing, afterwards getPath gives the value set and hasPath is true, and
\* keys off the path are unchanged.
C29_SetThenGet ==
    (pa_pc = "written" /\ PaNoEmptySegment) =>
        /\ ~pa_threw
        /\ SameValue(pa_got, pa_value)
        /\ pa_has
        /\ PaOthersUnchanged

\* What the code does: the same, provided the path does not lead through a
\* null; through a null it throws.
RECURSIVE PaThroughNull(_, _)
PaThroughNull(obj, n) ==
    /\ n < Len(PaKeys)
    /\ obj.kind = "object"
    /\ PaKeys[n] \in DOMAIN obj.val
    /\ \/ obj.val[PaKeys[n]].kind = "null"
       \/ PaThroughNull(obj.val[PaKeys[n]], n + 1)
C29_SetThenGetUnlessNull ==
    (pa_pc = "written" /\ PaNoEmptySegment) =>
        IF PaThroughNull(pa_obj, 1)
        THEN pa_threw
        ELSE /\ ~pa_threw
             /\ SameValue(pa_got, pa_value)
             /\ pa_has
             /\ PaOthersUnchanged

\* =========================================================================
\* Claims about the result guards
\* =========================================================================

RsSuccess == Prop(rs_result, "success")
RsFailureShaped ==
    /\ In("code", rs_result)
    /\ In("statusCode", rs_result)
    /\ In("description", rs_result)
RsBrand == Prop(rs_result, "__brand")

\* A value of the version's Result type: in part_003 it carries the brand
\* of its kind.
RsIsResult ==
    rs_branded =>
        IF StrictEquals(RsSuccess, Bool(TRUE))
        THEN StrictEquals(RsBrand, Str("successResult"))
        ELSE StrictEquals(RsBrand, Str("failureResult"))

\* C22: isSuccessResult is true exactly for results whose success is true;
\* isFailureResult is true for a failure-shaped result whose success is
\* false or undefined; a value built by ok passes isSuccessResult and not
\* isFailureResult, a value built by failure passes isFailureResult.
C22_GuardsFollowSuccess ==
    (rs_pc = "checked" /\ RsIsResult) =>
        /\ rs_isSuccess <=> StrictEquals(RsSuccess, Bool(TRUE))
        /\ (RsFailureShaped /\ RsSuccess.kind = "undefined") => rs_isFailure
        /\ (RsFailureShaped /\ StrictEquals(RsSuccess, Bool(FALSE)))
               => rs_isFailure
        /\ rs_built = "ok" => (rs_isSuccess /\ ~rs_isFailure)
        /\ rs_built = "failure" => rs_isFailure

\* What each version does. result.model.ts: as claimed.
C22_UnbrandedGuards ==
    (rs_pc = "checked" /\ ~rs_branded) =>
        /\ rs_isSuccess <=> StrictEquals(RsSuccess, Bool(TRUE))
        /\ rs_isFailure <=>
               \/ StrictEquals(RsSuccess, Bool(FALSE))
               \/ RsSuccess.kind = "undefined" /\ RsFailureShaped
        /\ rs_built = "ok" => (rs_isSuccess /\ ~rs_isFailure)
        /\ rs_built = "failure" => (rs_isFailure /\ ~rs_isSuccess)

\* part_003: the brand is required as well, and a success of undefined is
\* never a failure.
C22_BrandedGuards ==
    (rs_pc = "checked" /\ rs_branded) =>
        /\ rs_isSuccess <=>
               /\ StrictEquals(RsSuccess, Bool(TRUE))
               /\ StrictEquals(RsBrand, Str("successResult"))
        /\ rs_isFailure <=>
               /\ StrictEquals(RsSuccess, Bool(FALSE))
               /\ StrictEquals(RsBrand, Str("failureResult"))
               /\ RsFailureShaped
        /\ rs_built = "ok" => (rs_isSuccess /\ ~rs_isFailure)
        /\ rs_built = "failure" => (rs_isFailure /\ ~rs_isSuccess)

\* part_003's isFailureResult on a branded failure whose success is
\* undefined.
C22_BrandedUndefinedSuccess ==
    /\ rs_pc = "checked"
    /\ rs_branded
    /\ RsFailureShaped
    /\ StrictEquals(RsBrand, Str("failureResult"))
    /\ In("success", rs_result)
    /\ RsSuccess.kind = "undefined"
    /\ ~rs_isFailure

\* =========================================================================
\* Claims about minBy / maxBy
\* =========================================================================

MbValue(i) == mb_selector[mb_array[i]]
MbIndices == DOMAIN mb_array

\* The result is the element at the lowest index among those whose selector
\* value is the least (min) or the greatest (max).
MbFirstExtreme ==
    /\ mb_result.defined
    /\ mb_result.index \in MbIndices
    /\ mb_result.item = mb_array[mb_result.index]
    /\ \A j \in MbIndices :
           IF mb_pc = "min"
           THEN /\ MbValue(mb_result.index) <= MbValue(j)
                /\ j < mb_result.index => MbValue(mb_result.index) < MbValue(j)
           ELSE /\ MbValue(mb_result.index) >= MbValue(j)
                /\ j < mb_result.index => MbValue(mb_result.index) > MbValue(j)

\* C23: for every non-empty array and selector, minBy / maxBy return the
\* first element with the least / greatest selector value; undefined is
\* returned only for the empty array.
C23_FirstExtremeElement ==
    mb_pc \in {"min", "max"} =>
        IF mb_array = <<>> THEN ~mb_result.defined ELSE MbFirstExtreme

MbAllTruthy == \A j \in MbIndices : Truthy(mb_array[j])

\* What the code does: the same for arrays without falsy elements.
C23_FirstExtremeOfTruthy ==
    (mb_pc \in {"min", "max"} /\ MbAllTruthy) =>
        IF mb_array = <<>> THEN ~mb_result.defined ELSE MbFirstExtreme

\* A falsy first element gives undefined for a non-empty array.
C23_FalsyFirstGivesUndefined ==
    /\ mb_pc = "min"
    /\ mb_array = <<0, 2>>
    /\ ~mb_result.defined

\* =========================================================================
\* Claims about flattenObject
\* =========================================================================

FlKeys == OwnKeys(fl_obj)
FlHas(key, value) ==
    /\ key \in DOMAIN fl_result
    /\ fl_result[key].kind = value.kind
    /\ fl_result[key].val = value.val

\* Each key of a nested record appears under 'outer.inner'.
FlRecordsFlattened ==
    \A k \in FlKeys :
        fl_obj.val[k].kind = "object" =>
            /\ k \notin DOMAIN fl_result
            /\ \A c \in OwnKeys(fl_obj.val[k]) :
                   FlHas(k \o "." \o c, fl_obj.val[k].val[c])

\* Each element of an array-valued field appears under 'field.index'.
FlArraysFlattened ==
    \A k \in FlKeys :
        fl_obj.val[k].kind = "array" =>
            /\ k \notin DOMAIN fl_result
            /\ \A i \in DOMAIN fl_obj.val[k].val :
                   FlHas(k \o "." \o ToString(i - 1), fl_obj.val[k].val[i])

\* C25: flattenObject gives an array-valued field one dot key per index and
\* a nested record one dot key per inner key.
C25_ArraysAndRecordsFlattened ==
    fl_pc = "flattened" => (FlArraysFlattened /\ FlRecordsFlattened)

\* What the code does: nested records are flattened, an array stays the
\* value of its field.
C25_ArraysKept ==
    fl_pc = "flattened" =>
        /\ \A k \in FlKeys :
               fl_obj.val[k].kind # "object" => FlHas(k, fl_obj.val[k])
        /\ \A k \in FlKeys :
               fl_obj.val[k].kind = "object" =>
                   /\ k \notin DOMAIN fl_result
                   /\ \A c \in OwnKeys(fl_obj.val[k]) :
                          FlHas(k \o "." \o c, fl_obj.val[k].val[c])
        /\ \A flat \in DOMAIN fl_result :
               \/ flat \in FlKeys
               \/ \E k \in FlKeys :
                      /\ fl_obj.val[k].kind = "object"
                      /\ \E c \in OwnKeys(fl_obj.val[k]) : flat = k \o "." \o c

\* =========================================================================
\* Claims about getErrorCodeTitle
\* =========================================================================

\* s.split("_")
RECURSIVE CtSplitWords(_, _, _)
CtSplitWords(s, i, word) ==
    IF i > Len(s) THEN <<word>>
    ELSE IF s[i] = "_" THEN <<word>> \o CtSplitWords(s, i + 1, <<>>)
    ELSE CtSplitWords(s, i + 1, Append(word, s[i]))

CtParts == SplitDot(ct_code)
CtWords == CtSplitWords(CtParts[2], 1, <<>>)

\* 'prefix.snake_case': one dot, a prefix before it, and after it words of
\* letters separated by single underscores.
CtPrefixSnakeCase ==
    /\ Len(CtParts) = 2
    /\ CtParts[1] # <<>>
    /\ \A j \in DOMAIN CtParts[1] : CtParts[1][j] # "_"
    /\ \A j \in DOMAIN CtWords : CtWords[j] # <<>>

CtTitleOfWords ==
    Join([j \in DOMAIN CtWords |-> Capitalize(CtWords[j])], <<" ">>)

\* C24: for a code of the form 'prefix.snake_case' the title is the words
\* after the prefix, each capitalized, separated by spaces.
C24_TitleCasedWords ==
    (ct_pc = "titled" /\ CtPrefixSnakeCase) => ct_title = CtTitleOfWords

\* What the code does: the part after the prefix is capitalized as one
\* word, its underscores kept.
C24_UnderscoresKept ==
    (ct_pc = "titled" /\ CtPrefixSnakeCase) =>
        /\ ct_title = Capitalize(CtParts[2])
        /\ Len(CtWords) = 1 => ct_title = CtTitleOfWords

\* 'a.a_a' gives 'A_a'.
C24_UnderscoreInTitle ==
    /\ ct_pc = "titled"
    /\ ct_code = <<"a", ".", "a", "_", "a">>
    /\ ct_title = <<"A", "_", "a">>

\* =========================================================================
\* Claims about throttle: release after the executed call settles
\* =========================================================================

ThSettled == {c \in ThExecuted : th_calls[c].fn \in {"fulfilled", "rejected"}}
ThRejected == {c \in ThExecuted : th_calls[c].fn = "rejected"}

\* C26: once an executed call's fn has settled, resolved or rejected, the
\* release of the throttle is under way: its timer is armed, or has fired
\* and released the throttle.
C26_ReleasedAfterSettle ==
    \A c \in ThSettled : th_calls[c].timer \in {"pending", "fired"}

\* What the code does: the timer is armed after fn resolved only. After a
\* rejection no timer is armed, the throttle stays on, and no later call
\* executes fn.
C26_BlockedAfterReject ==
    /\ \A c \in ThSettled :
           th_calls[c].fn = "fulfilled" =>
               th_calls[c].timer \in {"pending", "fired"}
    /\ \A c \in ThRejected :
           /\ th_calls[c].timer = "none"
           /\ th_isThrottled
           /\ \A d \in ThCalls : d > c => ~th_calls[d].executed

\* A call made more than ms after the rejection is still suppressed.
C26_SuppressedLongAfterReject ==
    \E c \in ThRejected, d \in ThSuppressed :
        /\ d > c
        /\ th_calls[d].at > th_calls[c].at + th_ms

\* =========================================================================
\* Claims about waitFor: a true result against the deadline
\* =========================================================================

WfTrue == {n \in WfResults : wf_log[n].result = "true"}
WfThrew == {n \in WfResults : wf_log[n].result = "throws"}
WfCount(kind) == Cardinality(WfEvents(kind))

\* C27: once called, waitFor evaluates the condition, whatever the timeout;
\* a true result, before or after the deadline, resolves the wait with
\* onFinish called once (if given) and onTimeout not at all; onFinish and
\* onTimeout are never both called; and when the condition throws the wait
\* rejects with that error and neither callback is called.
C27_TrueBeatsDeadline ==
    /\ wf_pc # "start" => WfPolls # {}
    /\ wf_pc = "done" => WfResults # {}
    /\ WfTrue # {} =>
          /\ wf_pc = "done"
          /\ wf_outcome = Fulfilled
          /\ WfCount("onFinish") = (IF wf_onFinish THEN 1 ELSE 0)
          /\ WfCount("onTimeout") = 0
    /\ ~(WfCount("onFinish") > 0 /\ WfCount("onTimeout") > 0)
    /\ WfCount("onFinish") <= 1
    /\ WfCount("onTimeout") <= 1
    /\ WfThrew # {} =>
          /\ wf_pc = "done"
          /\ wf_outcome \in {Rejected(e) : e \in Errors}
          /\ WfCount("onFinish") = 0
          /\ WfCount("onTimeout") = 0

\* With timeout 0 and both callbacks given, the first evaluation came back
\* true after the deadline had passed: onFinish was called, onTimeout not.
C27_Witness ==
    /\ wf_timeoutMs = 0
    /\ wf_onFinish /\ wf_onTimeout
    /\ Len(wf_log) = 3
    /\ wf_log[2] = WfResult(1, "true")
    /\ wf_log[3] = WfCallback(1, "onFinish")
    /\ wf_outcome = Fulfilled

\* =========================================================================
\* Claims about batchExecute: termination
\* =========================================================================

BeRejected == {k \in BeIndices : be_tasks[k + 1].state = "rejected"}

\* C28: batchExecute terminates for every chunkSize. Every round of the
\* loop waits for at least one task it started and moves the index on, so
\* that the promise settles once the started tasks have; and once the
\* promise has settled no task is in flight unless one of its chunk
\* rejected.
C28_EveryRoundAdvances ==
    /\ be_pc = "await" =>
          /\ be_chunk # <<>>
          /\ be_i + be_chunkSize > be_i
    /\ (be_pc = "done" /\ BeInFlight # {}) => BeRejected # {}

\* What the code does: the same for chunkSize 1 and more. With chunkSize 0
\* or less the index never reaches tasks.length, so the promise settles
\* only for an empty task list or by a rejection.
C28_AdvancesWhenPositive ==
    /\ (be_pc = "await" /\ be_chunkSize > 0) =>
          /\ be_chunk # <<>>
          /\ be_i + be_chunkSize > be_i
    /\ (be_pc = "done" /\ BeInFlight # {}) => BeRejected # {}
    /\ (be_pc = "done" /\ be_chunkSize <= 0) =>
          \/ be_tasks = <<>>
          \/ BeRejected # {}

\* With chunkSize 0 the round that waits for an empty chunk leads back to
\* itself: nothing is in flight and the promise is pending.
C28_EmptyRoundForever ==
    /\ be_pc = "await"
    /\ be_chunkSize = 0
    /\ be_chunk = <<>>
    /\ be_all = Fulfilled
    /\ BeInFlight = {}
    /\ be_outcome = Pending
    /\ be_i < Len(be_tasks)

\* =========================================================================
\* Claims about asyncMap / asyncFilter: positions
\* =========================================================================

AmPositions == {n - 1 : n \in DOMAIN am_array}
AmFulfilled(i) ==
    {n \in AmEvents("settle") :
        am_log[n].index = i /\ am_log[n].state = "fulfilled"}
AmValue(i) == am_log[CHOOSE n \in AmFulfilled(i) : TRUE].value
AmReturned == am_pc = "done" /\ am_outcome = ResolvedWith(am_results)

\* The results are, in index order, f(i) for the positions i of the set.
AmResultsAre(positions, f(_)) ==
    /\ Len(am_results) = Cardinality(positions)
    /\ \A i \in positions :
          am_results[Cardinality({k \in positions : k <= i})] = f(i)
AmItem(i) == am_array[i + 1]

\* C30: asyncMap's result has the length of the input and holds at i what
\* mapper(array[i], i) resolved with; asyncFilter's result holds exactly
\* the elements whose predicate resolved true, in input order.
C30_PositionsPreserved ==
    AmReturned =>
        IF am_filter
        THEN AmResultsAre({i \in AmPositions :
                              AmFulfilled(i) # {} /\ AmValue(i) = TRUE},
                          AmItem)
        ELSE /\ \A i \in AmPositions : AmFulfilled(i) # {}
             /\ AmResultsAre(AmPositions, AmValue)

\* What the code does: asyncFilter as claimed; asyncMap never calls the
\* mapper for an undefined element and leaves it out of the result, which
\* holds the mapped values of the other elements in order.
AmDefined == {i \in AmPositions : AmItem(i) # UndefinedItem}
C30_UndefinedLeftOut ==
    AmReturned =>
        /\ \A i \in AmPositions : AmFulfilled(i) # {} <=> i \in AmDefined
        /\ IF am_filter
           THEN AmResultsAre({i \in AmDefined : AmValue(i) = TRUE}, AmItem)
           ELSE AmResultsAre(AmDefined, AmValue)

\* asyncMap of an array that starts with undefined returned one value for
\* two elements, the second element's value at index 0.
C30_ShorterResult ==
    /\ AmReturned
    /\ ~am_filter
    /\ Len(am_array) = 2
    /\ am_array[1] = UndefinedItem
    /\ Len(am_results) = 1
    /\ am_results[1] = AmValue(1)

====
